---------------------------- MODULE Spec2Model ----------------------------
(***************************************************************************)
(* A model of the travel-buddy request handlers:                           *)
(*   - trip/init    : request validation, destination and nearby lookups   *)
(*                    through validationCache, fuzzy place matching;       *)
(*   - trip/resolve : per-place coordinate resolution through              *)
(*                    coordinateCache, fanned out per day;                 *)
(*   - trip/create  : throttled itinerary generation and coordinate        *)
(*                    fallback.                                            *)
(* Strings are sequences of one-character strings so that toLowerCase,     *)
(* trim, includes and split are computed, not assumed.                     *)
(***************************************************************************)
EXTENDS Integers, Sequences, FiniteSets, TLC

(***************************************************************************)
(* String literals used by the model.                                      *)
(***************************************************************************)
sColosseum == <<"C", "o", "l", "o", "s", "s", "e", "u", "m">>
sColosseumSp == <<" ", "c", "o", "l", "o", "s", "s", "e", "u", "m", " ">>
sVisitColosseum == <<"v", "i", "s", "i", "t", " ", "t", "h", "e", " ", "C", "o", "l", "o", "s", "s", "e", "u", "m">>
sRomanForumRuins == <<"R", "o", "m", "a", "n", " ", "F", "o", "r", "u", "m", " ", "R", "u", "i", "n", "s">>
sTreviFountain == <<"T", "r", "e", "v", "i", " ", "F", "o", "u", "n", "t", "a", "i", "n">>
sNonexistent == <<"N", "o", "n", "e", "x", "i", "s", "t", "e", "n", "t", "P", "l", "a", "c", "e", "X", "Y", "Z">>
sAb == <<"a", "b">>
sAColosseum == <<"a", " ", "C", "o", "l", "o", "s", "s", "e", "u", "m">>
sSeeRomanForumRuins == <<"s", "e", "e", " ", "R", "o", "m", "a", "n", " ", "F", "o", "r", "u", "m", " ", "R", "u", "i", "n", "s">>
sToDo == <<"t", "o", " ", "d", "o">>
sColosseo == <<"C", "o", "l", "o", "s", "s", "e", "o">>
sFontanaDiTrevi == <<"F", "o", "n", "t", "a", "n", "a", " ", "d", "i", " ", "T", "r", "e", "v", "i">>
sForoRomano == <<"F", "o", "r", "o", " ", "R", "o", "m", "a", "n", "o">>
sColosseumSquare == <<"C", "o", "l", "o", "s", "s", "e", "u", "m", " ", "S", "q", "u", "a", "r", "e">>
sRomanRuins == <<"R", "o", "m", "a", "n", " ", "R", "u", "i", "n", "s">>
sFountainRuins == <<"F", "o", "u", "n", "t", "a", "i", "n", " ", "R", "u", "i", "n", "s">>
sAnfiteatroFlavio == <<"A", "n", "f", "i", "t", "e", "a", "t", "r", "o", " ", "F", "l", "a", "v", "i", "o">>
sVilla == <<"V", "i", "l", "l", "a", " ", "B", "o", "r", "g", "h", "e", "s", "e">>

(***************************************************************************)
(* JavaScript string operations.                                           *)
(***************************************************************************)
UpperChars == <<"A", "B", "C", "D", "E", "F", "G", "H", "I", "J", "K", "L", "M",
                "N", "O", "P", "Q", "R", "S", "T", "U", "V", "W", "X", "Y", "Z">>
LowerChars == <<"a", "b", "c", "d", "e", "f", "g", "h", "i", "j", "k", "l", "m",
                "n", "o", "p", "q", "r", "s", "t", "u", "v", "w", "x", "y", "z">>

\* String.prototype.toLowerCase, one character
LowerChar(c) ==
  IF \E i \in 1..26 : UpperChars[i] = c
    THEN LowerChars[CHOOSE i \in 1..26 : UpperChars[i] = c]
    ELSE c

\* String.prototype.toLowerCase
ToLowerCase(s) == [i \in 1..Len(s) |-> LowerChar(s[i])]

\* String.prototype.trim (the model's only white space is the space)
RECURSIVE TrimStart(_)
TrimStart(s) ==
  IF s # <<>> /\ Head(s) = " " THEN TrimStart(Tail(s)) ELSE s

RECURSIVE TrimEnd(_)
TrimEnd(s) ==
  IF s # <<>> /\ s[Len(s)] = " " THEN TrimEnd(SubSeq(s, 1, Len(s) - 1)) ELSE s

Trim(s) == TrimEnd(TrimStart(s))

\* String.prototype.includes: a.includes(b); the empty string is included in all
Includes(a, b) ==
  \E i \in 0..(Len(a) - Len(b)) : SubSeq(a, i + 1, i + Len(b)) = b

\* String.prototype.split(' '): consecutive spaces yield empty words
RECURSIVE SplitFrom(_, _)
SplitFrom(s, word) ==
  IF s = <<>> THEN <<word>>
  ELSE IF Head(s) = " " THEN <<word>> \o SplitFrom(Tail(s), <<>>)
  ELSE SplitFrom(Tail(s), Append(word, Head(s)))

Split(s) == SplitFrom(s, <<>>)

\* Array.prototype.filter(word => word.length > 2)
RECURSIVE SignificantWords(_)
SignificantWords(words) ==
  IF words = <<>> THEN <<>>
  ELSE IF Len(Head(words)) > 2
    THEN <<Head(words)>> \o SignificantWords(Tail(words))
    ELSE SignificantWords(Tail(words))

\* Math.floor(n * 0.5) for a natural n
FloorHalf(n) == n \div 2

\* Math.ceil(n * 0.5) for a natural n
CeilHalf(n) == (n + 1) \div 2

(***************************************************************************)
(* trip/init place matching (the predicate handed to nearbyPlaces.find).   *)
(***************************************************************************)
landmarkMappings ==
  <<
     [english |-> <<"c", "o", "l", "o", "s", "s", "e", "u", "m">>,
      variants |-> <<<<"c", "o", "l", "o", "s", "s", "e", "o">>,
                    <<"a", "m", "p", "h", "i", "t", "h", "e", "a", "t", "r", "u", "m", " ", "f", "l", "a", "v", "i", "u", "m">>,
                    <<"a", "n", "f", "i", "t", "e", "a", "t", "r", "o", " ", "f", "l", "a", "v", "i", "o">>>>],
     [english |-> <<"t", "r", "e", "v", "i", " ", "f", "o", "u", "n", "t", "a", "i", "n">>,
      variants |-> <<<<"f", "o", "n", "t", "a", "n", "a", " ", "d", "i", " ", "t", "r", "e", "v", "i">>,
                    <<"t", "r", "e", "v", "i">>,
                    <<"f", "o", "n", "t", "a", "n", "a">>>>],
     [english |-> <<"v", "a", "t", "i", "c", "a", "n", " ", "m", "u", "s", "e", "u", "m", "s">>,
      variants |-> <<<<"m", "u", "s", "e", "i", " ", "v", "a", "t", "i", "c", "a", "n", "i">>,
                    <<"v", "a", "t", "i", "c", "a", "n">>,
                    <<"v", "a", "t", "i", "c", "a", "n", "i">>,
                    <<"s", "i", "s", "t", "i", "n", "e", " ", "c", "h", "a", "p", "e", "l">>>>],
     [english |-> <<"s", "i", "s", "t", "i", "n", "e", " ", "c", "h", "a", "p", "e", "l">>,
      variants |-> <<<<"c", "a", "p", "p", "e", "l", "l", "a", " ", "s", "i", "s", "t", "i", "n", "a">>,
                    <<"s", "i", "s", "t", "i", "n", "a">>,
                    <<"m", "u", "s", "e", "i", " ", "v", "a", "t", "i", "c", "a", "n", "i">>>>],
     [english |-> <<"p", "a", "n", "t", "h", "e", "o", "n">>,
      variants |-> <<<<"p", "a", "n", "t", "h", "e", "o", "n">>>>],
     [english |-> <<"s", "p", "a", "n", "i", "s", "h", " ", "s", "t", "e", "p", "s">>,
      variants |-> <<<<"s", "c", "a", "l", "i", "n", "a", "t", "a", " ", "d", "i", " ", "t", "r", "i", "n", "i", "t", "a_grave", " ", "d", "e", "i", " ", "m", "o", "n", "t", "i">>,
                    <<"t", "r", "i", "n", "i", "t", "a_grave", " ", "d", "e", "i", " ", "m", "o", "n", "t", "i">>,
                    <<"s", "p", "a", "n", "i", "s", "h">>>>],
     [english |-> <<"r", "o", "m", "a", "n", " ", "f", "o", "r", "u", "m">>,
      variants |-> <<<<"f", "o", "r", "o", " ", "r", "o", "m", "a", "n", "o">>,
                    <<"f", "o", "r", "u", "m", " ", "r", "o", "m", "a", "n", "u", "m">>,
                    <<"f", "o", "r", "u", "m">>>>],
     [english |-> <<"s", "t", " ", "p", "e", "t", "e", "r", "s", " ", "b", "a", "s", "i", "l", "i", "c", "a">>,
      variants |-> <<<<"b", "a", "s", "i", "l", "i", "c", "a", " ", "d", "i", " ", "s", "a", "n", " ", "p", "i", "e", "t", "r", "o">>,
                    <<"s", "a", "n", " ", "p", "i", "e", "t", "r", "o">>,
                    <<"s", "t", " ", "p", "e", "t", "e", "r">>>>],
     [english |-> <<"c", "a", "s", "t", "e", "l", " ", "s", "a", "n", "t", "a", "n", "g", "e", "l", "o">>,
      variants |-> <<<<"c", "a", "s", "t", "e", "l", " ", "s", "a", "n", "t", "'", "a", "n", "g", "e", "l", "o">>,
                    <<"m", "a", "u", "s", "o", "l", "e", "u", "m", " ", "o", "f", " ", "h", "a", "d", "r", "i", "a", "n">>,
                    <<"c", "a", "s", "t", "e", "l", "l", "o">>>>]
  >>

\* requestedPlace.toLowerCase().trim(), nearby.name.toLowerCase().trim()
Normalize(s) == Trim(ToLowerCase(s))

\* Strategy 1: exact match of the normalized strings
ExactMatch(normalizedRequested, normalizedNearby) ==
  normalizedNearby = normalizedRequested

\* Strategy 2: contains match, either direction
ContainsMatch(normalizedRequested, normalizedNearby) ==
  \/ Includes(normalizedNearby, normalizedRequested)
  \/ Includes(normalizedRequested, normalizedNearby)

\* the landmark table consulted only for a reference that is a key itself
LandmarkMatchWholeReference(normalizedRequested, normalizedNearby) ==
  \E e \in 1..Len(landmarkMappings) :
    /\ normalizedRequested = landmarkMappings[e].english
    /\ \E v \in 1..Len(landmarkMappings[e].variants) :
         Includes(normalizedNearby, landmarkMappings[e].variants[v])

\* Strategy 3: common landmark name mappings
LandmarkMatch(normalizedRequested, normalizedNearby) ==
  \E e \in 1..Len(landmarkMappings) :
    /\ Includes(normalizedRequested, landmarkMappings[e].english)
    /\ \E v \in 1..Len(landmarkMappings[e].variants) :
         Includes(normalizedNearby, landmarkMappings[e].variants[v])

\* requestedWords / nearbyWords: split(' ').filter(word => word.length > 2)
WordsOf(normalized) == SignificantWords(Split(normalized))

\* matchingWords.length: requested words overlapping some nearby word
MatchingWordCount(requestedWords, nearbyWords) ==
  Cardinality({ i \in 1..Len(requestedWords) :
    \E j \in 1..Len(nearbyWords) :
      \/ Includes(nearbyWords[j], requestedWords[i])
      \/ Includes(requestedWords[i], nearbyWords[j]) })

\* Strategy 4: word-by-word partial matching
WordMatch(normalizedRequested, normalizedNearby) ==
  LET requestedWords == WordsOf(normalizedRequested)
      nearbyWords == WordsOf(normalizedNearby)
  IN  MatchingWordCount(requestedWords, nearbyWords) >= CeilHalf(Len(requestedWords))

\* The callback of nearbyPlaces.find: true as soon as one strategy accepts
MatchPredicate(requestedPlace, nearbyName) ==
  LET normalizedRequested == Normalize(requestedPlace)
      normalizedNearby == Normalize(nearbyName)
  IN  \/ ExactMatch(normalizedRequested, normalizedNearby)
      \/ ContainsMatch(normalizedRequested, normalizedNearby)
      \/ LandmarkMatch(normalizedRequested, normalizedNearby)
      \/ WordMatch(normalizedRequested, normalizedNearby)

\* Array.prototype.find as an index: the first position whose element passes,
\* 0 when none does (find returns undefined)
RECURSIVE FindFrom(_, _, _)
FindFrom(requestedPlace, pool, i) ==
  IF i > Len(pool) THEN 0
  ELSE IF MatchPredicate(requestedPlace, pool[i].name) THEN i
  ELSE FindFrom(requestedPlace, pool, i + 1)

\* the strategies tried one after the other, each over the whole pool
FindMatchByStrategyOrder(requestedPlace, pool) ==
  LET normalizedRequested == Normalize(requestedPlace)
      Hits(Strategy(_, _)) ==
        { i \in 1..Len(pool) : Strategy(normalizedRequested, Normalize(pool[i].name)) }
      First(set) == CHOOSE i \in set : \A j \in set : i <= j
  IN  IF Hits(ExactMatch) # {} THEN First(Hits(ExactMatch))
      ELSE IF Hits(ContainsMatch) # {} THEN First(Hits(ContainsMatch))
      ELSE IF Hits(LandmarkMatch) # {} THEN First(Hits(LandmarkMatch))
      ELSE IF Hits(WordMatch) # {} THEN First(Hits(WordMatch))
      ELSE 0

\* the last position of the pool whose element passes (0: none)
FindLastMatch(requestedPlace, pool) ==
  LET hits == { i \in 1..Len(pool) : MatchPredicate(requestedPlace, pool[i].name) }
  IN  IF hits = {} THEN 0 ELSE CHOOSE i \in hits : \A j \in hits : j <= i

FindMatch(requestedPlace, pool) == FindFrom(requestedPlace, pool, 1)


(***************************************************************************)
(* JavaScript values: undefined, truthiness of strings.                    *)
(***************************************************************************)
\* undefined, kept apart from every string of characters
Undefined == <<"undefined">>

\* !!v for a string or undefined: the empty string and undefined are falsy
Truthy(v) == v # Undefined /\ v # <<>>

(***************************************************************************)
(* State.                                                                  *)
(***************************************************************************)
VARIABLES
  route,            \* which handler (or the bare matcher) this run exercises
  now,              \* Date.now(), in milliseconds
  \* the place matcher applied to one reference and one pool
  requestedPlace, candidatePool, matchedIndex, matchPc,
  \* trip/create
  groqApiKey,       \* whether process.env.GROQ_API_KEY is set
  lastGroqRequest,  \* module variable lastGroqRequest
  groqCalls,        \* issue time of every fetch sent to the generator
  createPc, createBody, createWake,
  createGroq,       \* per request: fetches sent to the generator, how the last settled
  createResponse,
  \* trip/resolve
  coordinateCache,  \* module variable coordinateCache: key -> {data, timestamp}
  resolvePc, resolveBody,
  destinationResponse,  \* how the destination lookup settled: threw, non-OK, OK
  destinationLat, destinationLon, totalPlaces,
  dayIndex,         \* position in itineraryData.itinerary of the day in progress
  lookups,          \* the resolveCoordinates calls of the day in progress
  enrichedItinerary, unresolvedPlaces, resolvedCount, resolveResponse,
  \* trip/init
  validationCache,  \* module variable validationCache: key -> {data, timestamp}
  initPc, initBody, destinationResult, nearbyPlaces, validatedPlaces,
  invalidPlaces,
  initReads,        \* what the two cache reads of the request found and did
  initCalls,        \* upstream calls sent for the request, per service
  initResponse

matchVars == <<requestedPlace, candidatePool, matchedIndex, matchPc>>
createVars == <<groqApiKey, lastGroqRequest, groqCalls,
                createPc, createBody, createWake, createGroq, createResponse>>
resolveVars == <<coordinateCache, resolvePc, resolveBody, destinationResponse, destinationLat,
                 destinationLon, totalPlaces, dayIndex, lookups,
                 enrichedItinerary, unresolvedPlaces, resolvedCount, resolveResponse>>
initVars == <<validationCache, initPc, initBody, destinationResult, nearbyPlaces,
              validatedPlaces, invalidPlaces, initReads, initCalls, initResponse>>
vars == <<route, now, matchVars, createVars, resolveVars, initVars>>

\* what the actions of one handler leave alone
notMatchVars == <<route, now, createVars, resolveVars, initVars>>
notCreateVars == <<route, matchVars, resolveVars, initVars>>
notResolveVars == <<route, matchVars, createVars, initVars>>
notInitVars == <<route, matchVars, createVars, resolveVars>>

(***************************************************************************)
(* Bounds of the model.                                                    *)
(***************************************************************************)
\* longest candidate pool handed to the bare matcher
MaxPool == 2
\* Date.now() when the process starts
StartTime == 5000
\* number of clock steps a run may take
MaxTicks == 3

(***************************************************************************)
(* Candidates returned by the nearby search.                               *)
(***************************************************************************)
Candidate(name, id, lat, lon) == [name |-> name, id |-> id, lat |-> lat, lon |-> lon]

cColosseo == Candidate(sColosseo, "n1", <<"4", "1">>, <<"1", "2">>)
cColosseum == Candidate(sColosseum, "n2", <<"4", "2">>, <<"1", "3">>)
cColosseumSquare == Candidate(sColosseumSquare, "n3", <<"4", "3">>, <<"1", "4">>)
cFontanaDiTrevi == Candidate(sFontanaDiTrevi, "n4", <<"4", "4">>, <<"1", "5">>)
cForoRomano == Candidate(sForoRomano, "n5", <<"4", "5">>, <<"1", "6">>)
cRomanRuins == Candidate(sRomanRuins, "n6", <<"4", "6">>, <<"1", "7">>)
cVilla == Candidate(sVilla, "n7", <<"4", "7">>, <<"1", "8">>)
cAnfiteatroFlavio == Candidate(sAnfiteatroFlavio, "n9", <<"4", "9">>, <<"2", "0">>)
cFountainRuins == Candidate(sFountainRuins, "n8", <<"4", "8">>, <<"1", "9">>)

Candidates == {cColosseo, cColosseum, cColosseumSquare, cFontanaDiTrevi,
               cForoRomano, cRomanRuins, cVilla, cFountainRuins,
               cAnfiteatroFlavio}

References == {sColosseum, sColosseumSp, sVisitColosseum, sRomanForumRuins,
               sTreviFountain, sNonexistent, sAb, sToDo, sAColosseum,
               sSeeRomanForumRuins}

Pools == UNION { [1..n -> Candidates] : n \in 0..MaxPool }

(***************************************************************************)
(* The bare matcher: one reference against one pool.                       *)
(***************************************************************************)
MatchIdle ==
  /\ requestedPlace = <<>>
  /\ candidatePool = <<>>
  /\ matchedIndex = 0
  /\ matchPc = "off"

MatchInit ==
  /\ requestedPlace \in References
  /\ candidatePool \in Pools
  /\ matchedIndex = 0
  /\ matchPc = "ready"

\* const matchedPlace = nearbyPlaces.find(...)
ApplyMatch ==
  /\ route = "match"
  /\ matchPc = "ready"
  /\ matchedIndex' = FindMatch(requestedPlace, candidatePool)
  /\ matchPc' = "done"
  /\ UNCHANGED <<notMatchVars, requestedPlace, candidatePool>>

(***************************************************************************)
(* HTTP responses.                                                         *)
(***************************************************************************)
Response(status, error, details, itinerary) ==
  [status |-> status, error |-> error, details |-> details, itinerary |-> itinerary]

NoResponse == Response(0, "", <<>>, <<>>)

(***************************************************************************)
(* trip/create: request bodies.                                            *)
(***************************************************************************)
\* Rate limiting: minimum spacing of generator calls, in milliseconds
MIN_GROQ_INTERVAL == 1000

\* the clock of a trip/create run advances in half intervals
CreateTickMs == MIN_GROQ_INTERVAL \div 2

CreateRequests == {1, 2}

sAttraction == <<"a", "t", "t", "r">>
sColosseoLower == <<"c", "o", "l", "o", "s", "s", "e", "o">>
sPantheon == <<"P", "a", "n", "t", "h", "e", "o", "n">>
sRome == <<"R", "o", "m", "e">>
RomeLat == <<"4", "1", ".", "9">>
RomeLon == <<"1", "2", ".", "5">>

SelectedPlace(name, lat, lon, type) ==
  [name |-> name, lat |-> lat, lon |-> lon, type |-> type]

spColosseo == SelectedPlace(sColosseo, <<"4", "1">>, <<"1", "2">>, sAttraction)
spTrevi == SelectedPlace(sFontanaDiTrevi, <<"4", "4">>, <<"1", "5">>, Undefined)
spNoLat == SelectedPlace(sForoRomano, Undefined, <<"1", "6">>, Undefined)

JsNumber(tenths) == [kind |-> "number", tenths |-> tenths]
JsString(tenths) == [kind |-> "string", tenths |-> tenths]
JsUndefined == [kind |-> "undefined", tenths |-> 0]

Destination(name, lat, lon) == [name |-> name, lat |-> lat, lon |-> lon]

CreateBody(json, destination, isArray, selectedPlaces, days, budget) ==
  [json |-> json, destination |-> destination, selectedIsArray |-> isArray,
   selectedPlaces |-> selectedPlaces, days |-> days, budget |-> budget]

RomeDestination == Destination(sRome, RomeLat, RomeLon)

EmptyCreateBody ==
  CreateBody(FALSE, Destination(Undefined, Undefined, Undefined), FALSE, <<>>,
             JsUndefined, "undefined")

ValidCreateBodies ==
  { CreateBody(TRUE, RomeDestination, TRUE, <<spColosseo>>, JsNumber(20), "moderate"),
    CreateBody(TRUE, RomeDestination, TRUE, <<spColosseo, spTrevi>>, JsNumber(300), "low") }

InvalidCreateBodies ==
  { EmptyCreateBody,
    CreateBody(TRUE, Destination(sRome, Undefined, RomeLon), TRUE, <<spColosseo>>,
               JsNumber(20), "moderate"),
    CreateBody(TRUE, RomeDestination, FALSE, <<>>, JsNumber(20), "moderate"),
    CreateBody(TRUE, RomeDestination, TRUE, <<>>, JsNumber(20), "moderate"),
    CreateBody(TRUE, RomeDestination, TRUE, [i \in 1..21 |-> spColosseo],
               JsNumber(20), "moderate"),
    CreateBody(TRUE, RomeDestination, TRUE, <<spColosseo, spNoLat>>,
               JsNumber(20), "moderate"),
    CreateBody(TRUE, RomeDestination, TRUE, <<spColosseo>>, JsNumber(0), "moderate"),
    CreateBody(TRUE, RomeDestination, TRUE, <<spColosseo>>, JsNumber(310), "moderate"),
    CreateBody(TRUE, RomeDestination, TRUE, <<spColosseo>>, JsString(20), "moderate"),
    CreateBody(TRUE, RomeDestination, TRUE, <<spColosseo>>, JsNumber(20), "cheap"),
    CreateBody(TRUE, Destination(Undefined, Undefined, Undefined), TRUE, <<>>,
               JsUndefined, "undefined") }

CreateBodies == ValidCreateBodies \cup InvalidCreateBodies

\* !days || typeof days !== 'number' || days <= 0 || days > 30
DaysInvalid(days) ==
  ~(days.kind = "number" /\ days.tenths > 0 /\ days.tenths <= 300)

\* the errors pushed for the elements of selectedPlaces, in index order
RECURSIVE PlaceErrors(_, _)
PlaceErrors(selectedPlaces, i) ==
  IF i > Len(selectedPlaces) THEN <<>>
  ELSE (IF ~Truthy(selectedPlaces[i].name) \/ ~Truthy(selectedPlaces[i].lat)
           \/ ~Truthy(selectedPlaces[i].lon)
          THEN << <<"place missing coordinates", i>> >>
          ELSE <<>>)
       \o PlaceErrors(selectedPlaces, i + 1)

\* the errors array built by the validation of trip/create
CreateValidationErrors(body) ==
  (IF ~Truthy(body.destination.name) \/ ~Truthy(body.destination.lat)
      \/ ~Truthy(body.destination.lon)
     THEN << <<"destination">> >> ELSE <<>>)
  \o (IF ~body.selectedIsArray \/ Len(body.selectedPlaces) = 0
        THEN << <<"places empty">> >>
        ELSE IF Len(body.selectedPlaces) > 20 THEN << <<"places maximum">> >>
        ELSE <<>>)
  \o PlaceErrors(body.selectedPlaces, 1)
  \o (IF DaysInvalid(body.days) THEN << <<"days">> >> ELSE <<>>)
  \o (IF body.budget \notin {"low", "moderate", "luxury"}
        THEN << <<"budget">> >> ELSE <<>>)

\* selectedPlaces.forEach on a value that is no array throws a TypeError
CreateValidationThrows(body) == ~body.selectedIsArray

(***************************************************************************)
(* trip/create: what the generator may answer.                             *)
(***************************************************************************)
GenPlace(name, lat, lon, time, type) ==
  [name |-> name, lat |-> lat, lon |-> lon, time |-> time, type |-> type]

GenDay(day, hasPlaces, places) ==
  [day |-> day, hasPlaces |-> hasPlaces, places |-> places]

gColosseoFull == GenPlace(sColosseo, <<"4", "1">>, <<"1", "2">>, "morning", sAttraction)
gColosseoBare == GenPlace(sColosseoLower, Undefined, Undefined, "morning", Undefined)
gPantheonBare == GenPlace(sPantheon, Undefined, Undefined, "afternoon", Undefined)
gTreviNoLon == GenPlace(sFontanaDiTrevi, <<"4", "4">>, Undefined, "evening", Undefined)

GenItineraries ==
  { <<>>,
    << GenDay(1, TRUE, <<gColosseoFull>>) >>,
    << GenDay(1, TRUE, <<gColosseoBare>>) >>,
    << GenDay(1, TRUE, <<gColosseoFull>>), GenDay(2, TRUE, <<gPantheonBare>>) >>,
    << GenDay(1, TRUE, <<gTreviNoLon, gColosseoBare>>) >>,
    << GenDay(1, FALSE, <<>>) >> }

GroqOutcome(kind, status, message, itinerary) ==
  [kind |-> kind, status |-> status, message |-> message, itinerary |-> itinerary]

\* fetch rejects (timeout, network), a non-2xx answer, an empty answer, text that
\* is no JSON, JSON without destination or itinerary, or an itinerary
GroqOutcomes ==
  { GroqOutcome("throw", 0, "The operation was aborted due to timeout", <<>>),
    GroqOutcome("throw", 0, "fetch failed", <<>>),
    GroqOutcome("http", 429, "", <<>>),
    GroqOutcome("http", 503, "", <<>>),
    GroqOutcome("empty", 200, "", <<>>),
    GroqOutcome("badjson", 200, "", <<>>),
    GroqOutcome("incomplete", 200, "", <<>>) }
  \cup { GroqOutcome("ok", 200, "", it) : it \in GenItineraries }

\* selectedPlaces.find(sp => sp.name.toLowerCase().includes(place.name.toLowerCase())
\*                       || place.name.toLowerCase().includes(sp.name.toLowerCase()))
RECURSIVE FindOriginal(_, _, _)
FindOriginal(placeName, selectedPlaces, i) ==
  IF i > Len(selectedPlaces) THEN 0
  ELSE IF \/ Includes(ToLowerCase(selectedPlaces[i].name), ToLowerCase(placeName))
          \/ Includes(ToLowerCase(placeName), ToLowerCase(selectedPlaces[i].name))
    THEN i
  ELSE FindOriginal(placeName, selectedPlaces, i + 1)

\* the body of day.places.forEach: coordinates are filled from the input when
\* the generator left them out and a selected place matches by name
FillPlace(place, selectedPlaces) ==
  IF Truthy(place.lat) /\ Truthy(place.lon) THEN place
  ELSE LET i == FindOriginal(place.name, selectedPlaces, 1)
       IN  IF i = 0 THEN place
           ELSE [place EXCEPT !.lat = selectedPlaces[i].lat,
                              !.lon = selectedPlaces[i].lon,
                              !.type = selectedPlaces[i].type]

\* itinerary.itinerary.forEach(day => day.places.forEach(...))
FillCoordinates(itinerary, selectedPlaces) ==
  [d \in 1..Len(itinerary) |->
     [itinerary[d] EXCEPT !.places =
        [p \in 1..Len(itinerary[d].places) |->
           FillPlace(itinerary[d].places[p], selectedPlaces)]]]

\* day.places.forEach on a day without places, or toLowerCase on a missing name
FillThrows(itinerary) ==
  \E d \in 1..Len(itinerary) :
    \/ ~itinerary[d].hasPlaces
    \/ \E p \in 1..Len(itinerary[d].places) :
         /\ ~(Truthy(itinerary[d].places[p].lat) /\ Truthy(itinerary[d].places[p].lon))
         /\ itinerary[d].places[p].name = Undefined

\* the response built from what the generator answered (lines 216-319)
GroqResponse(outcome, body) ==
  CASE outcome.kind = "throw" ->
         Response(500, "Internal server error", << <<outcome.message>> >>, <<>>)
    [] outcome.kind = "http" ->
         Response(500, "AI service error",
                  << <<IF outcome.status = 429 THEN "Rate limit exceeded"
                                               ELSE "AI service unavailable">> >>, <<>>)
    [] outcome.kind = "empty" -> Response(500, "Empty AI response", <<>>, <<>>)
    [] outcome.kind = "badjson" ->
         Response(500, "AI returned invalid format",
                  << <<"Generated response was not valid JSON">> >>, <<>>)
    [] outcome.kind = "incomplete" ->
         Response(500, "AI returned incomplete itinerary", <<>>, <<>>)
    [] outcome.kind = "ok" ->
         IF FillThrows(outcome.itinerary)
           THEN Response(500, "Internal server error", << <<"TypeError">> >>, <<>>)
           ELSE Response(200, "", <<>>,
                         FillCoordinates(outcome.itinerary, body.selectedPlaces))

(***************************************************************************)
(* trip/create: the handler, one action per stretch between two awaits.    *)
(***************************************************************************)
CreateIdle ==
  /\ groqApiKey = TRUE
  /\ lastGroqRequest = 0
  /\ groqCalls = <<>>
  /\ createPc = [r \in CreateRequests |-> "off"]
  /\ createBody = [r \in CreateRequests |-> EmptyCreateBody]
  /\ createWake = [r \in CreateRequests |-> 0]
  /\ createGroq = [r \in CreateRequests |-> [calls |-> 0, answer |-> "none"]]
  /\ createResponse = [r \in CreateRequests |-> NoResponse]

CreateInit ==
  /\ groqApiKey \in BOOLEAN
  /\ lastGroqRequest = 0
  /\ groqCalls = <<>>
  /\ createPc = [r \in CreateRequests |-> "idle"]
  /\ createBody = [r \in CreateRequests |-> EmptyCreateBody]
  /\ createWake = [r \in CreateRequests |-> 0]
  /\ createGroq = [r \in CreateRequests |-> [calls |-> 0, answer |-> "none"]]
  /\ createResponse = [r \in CreateRequests |-> NoResponse]

\* lines 183-212: the key check, then the fetch is sent
CallGroq(r) ==
  IF groqApiKey
    THEN /\ groqCalls' = Append(groqCalls, now)
         /\ createGroq' = [createGroq EXCEPT ![r].calls = @ + 1]
         /\ createPc' = [createPc EXCEPT ![r] = "calling"]
         /\ createResponse' = createResponse
    ELSE /\ groqCalls' = groqCalls
         /\ createGroq' = createGroq
         /\ createPc' = [createPc EXCEPT ![r] = "done"]
         /\ createResponse' = [createResponse EXCEPT ![r] =
              Response(500, "Groq API key not configured", <<>>, <<>>)]

\* a request whose generator call failed waits and calls again
RespondOrRetry(r, response) ==
  IF createPc[r] = "calling" /\ response.status = 500
    THEN /\ createPc' = [createPc EXCEPT ![r] = "throttled"]
         /\ UNCHANGED <<groqCalls, createWake, createResponse>>
    ELSE /\ createPc' = [createPc EXCEPT ![r] = "done"]
         /\ createResponse' = [createResponse EXCEPT ![r] = response]
         /\ UNCHANGED <<groqCalls, createWake>>

Respond(r, response) ==
  /\ createPc' = [createPc EXCEPT ![r] = "done"]
  /\ createResponse' = [createResponse EXCEPT ![r] = response]
  /\ UNCHANGED <<groqCalls, createWake>>

\* lines 63-181: the body is parsed and validated; a valid request checks the
\* throttle and either sets its timer or goes on to the call
CreateReceive(r) ==
  /\ route = "create"
  /\ createPc[r] = "idle"
  /\ \E body \in CreateBodies :
       /\ createBody' = [createBody EXCEPT ![r] = body]
       /\ IF ~body.json
            THEN /\ Respond(r, Response(400, "Invalid JSON in request body", <<>>, <<>>))
                 /\ UNCHANGED createGroq
          ELSE IF CreateValidationThrows(body)
            THEN /\ Respond(r, Response(500, "Internal server error",
                                        << <<"TypeError">> >>, <<>>))
                 /\ UNCHANGED createGroq
          ELSE IF CreateValidationErrors(body) # <<>>
            THEN /\ Respond(r, Response(400, "Validation failed",
                                        CreateValidationErrors(body), <<>>))
                 /\ UNCHANGED createGroq
          ELSE IF now - lastGroqRequest < MIN_GROQ_INTERVAL
            THEN /\ createWake' = [createWake EXCEPT ![r] =
                       now + (MIN_GROQ_INTERVAL - (now - lastGroqRequest))]
                 /\ createPc' = [createPc EXCEPT ![r] = "throttled"]
                 /\ UNCHANGED <<groqCalls, createGroq, createResponse>>
          ELSE /\ CallGroq(r)
               /\ UNCHANGED createWake
  /\ UNCHANGED <<notCreateVars, now, groqApiKey, lastGroqRequest>>

\* a throttled request whose timer fires answers 429 instead of calling
CreateWakeRejects(r) ==
  /\ route = "create"
  /\ createPc[r] = "throttled"
  /\ now >= createWake[r]
  /\ createPc' = [createPc EXCEPT ![r] = "done"]
  /\ createResponse' = [createResponse EXCEPT ![r] =
       Response(429, "Too many requests", <<>>, <<>>)]
  /\ UNCHANGED <<notCreateVars, now, groqApiKey, lastGroqRequest, groqCalls,
                 createBody, createWake, createGroq>>

\* line 180: the timer set by the throttle expires
CreateWake(r) ==
  /\ route = "create"
  /\ createPc[r] = "throttled"
  /\ now >= createWake[r]
  /\ CallGroq(r)
  /\ UNCHANGED <<notCreateVars, now, groqApiKey, lastGroqRequest,
                 createBody, createWake>>

\* lines 194-319: the fetch settles; lastGroqRequest is written once it resolved
CreateGroqReturn(r) ==
  /\ route = "create"
  /\ createPc[r] = "calling"
  /\ \E outcome \in GroqOutcomes :
       /\ lastGroqRequest' = IF outcome.kind = "throw" THEN lastGroqRequest ELSE now
       /\ createGroq' = [createGroq EXCEPT ![r].answer = outcome.kind]
       /\ Respond(r, GroqResponse(outcome, createBody[r]))
  /\ UNCHANGED <<notCreateVars, now, groqApiKey, createBody>>

\* a request sleeps in the throttle and its timer has not expired
TimerPending ==
  \E r \in CreateRequests : createPc[r] = "throttled" /\ now < createWake[r]

\* time passes while requests wait; the clock of a run stops after MaxTicks
\* steps unless a timer is still to expire
CreateTick ==
  /\ route = "create"
  /\ now < StartTime + MaxTicks * CreateTickMs \/ TimerPending
  /\ now' = now + CreateTickMs
  /\ UNCHANGED <<notCreateVars, createVars>>

(***************************************************************************)
(* trip/resolve: the coordinate cache.                                     *)
(***************************************************************************)
\* CACHE_DURATION of trip/resolve: 30 minutes
COORDINATE_CACHE_DURATION == 30 * 60 * 1000

\* the clock of a trip/resolve run advances in half durations
ResolveTickMs == COORDINATE_CACHE_DURATION \div 2

sUndefined == <<"u", "n", "d", "e", "f", "i", "n", "e", "d">>
sAtlantis == <<"A", "t", "l", "a", "n", "t", "i", "s">>
sZero == <<"0">>

\* `${v}` inside a template literal
TemplateString(v) == IF v = Undefined THEN sUndefined ELSE v

\* `${placeName.toLowerCase()}_${destinationLat}_${destinationLon}`
CoordinateCacheKey(placeName, lat, lon) ==
  ToLowerCase(placeName) \o <<"_">> \o TemplateString(lat) \o <<"_">> \o TemplateString(lon)

\* new Map()
EmptyCache == [k \in {} |-> 0]

CacheEntry(data, timestamp) == [data |-> data, timestamp |-> timestamp]

\* a set that keeps the entry a key already has
CacheSetIfAbsent(cache, key, entry) ==
  [k \in DOMAIN cache \cup {key} |-> IF k \in DOMAIN cache THEN cache[k] ELSE entry]

\* Map.prototype.set
CacheSet(cache, key, entry) ==
  [k \in DOMAIN cache \cup {key} |-> IF k = key THEN entry ELSE cache[k]]

\* Map.prototype.delete
CacheDelete(cache, key) == [k \in DOMAIN cache \ {key} |-> cache[k]]

\* the value resolveCoordinates returns: coordinates, or null
Coordinates(lat, lon, placeId) ==
  [found |-> TRUE, lat |-> lat, lon |-> lon, place_id |-> placeId]

NoCoordinates == [found |-> FALSE, lat |-> Undefined, lon |-> Undefined, place_id |-> ""]

\* a freshness test that still accepts an entry whose age equals the duration
CoordinateFreshInclusive(entry, time) ==
  time - entry.timestamp <= COORDINATE_CACHE_DURATION

\* Date.now() - cached.timestamp < CACHE_DURATION
CoordinateFresh(entry, time) == time - entry.timestamp < COORDINATE_CACHE_DURATION

\* a read that leaves a stale entry in the map
ReadCoordinateCacheKeepsStale(cache, key, time) ==
  IF key \in DOMAIN cache /\ CoordinateFresh(cache[key], time)
    THEN [hit |-> TRUE, data |-> cache[key].data, cache |-> cache]
    ELSE [hit |-> FALSE, data |-> NoCoordinates, cache |-> cache]

\* lines 67-74: a fresh entry is returned, a stale one is deleted
ReadCoordinateCache(cache, key, time) ==
  IF key \in DOMAIN cache
    THEN IF CoordinateFresh(cache[key], time)
           THEN [hit |-> TRUE, data |-> cache[key].data, cache |-> cache]
           ELSE [hit |-> FALSE, data |-> NoCoordinates, cache |-> CacheDelete(cache, key)]
    ELSE [hit |-> FALSE, data |-> NoCoordinates, cache |-> cache]

\* what a read found and did, kept with the lookup that made it
ReadRecord(cache, key, time, read, noData) ==
  [present |-> key \in DOMAIN cache,
   age |-> IF key \in DOMAIN cache THEN time - cache[key].timestamp ELSE 0,
   stored |-> IF key \in DOMAIN cache THEN cache[key].data ELSE noData,
   hit |-> read.hit,
   intact |-> read.cache = cache,
   evicted |-> key \in DOMAIN cache /\ read.cache = CacheDelete(cache, key)]

\* no read was made
NoRead(noData) ==
  [present |-> FALSE, age |-> 0, stored |-> noData, hit |-> FALSE,
   intact |-> TRUE, evicted |-> FALSE]

(***************************************************************************)
(* trip/resolve: requests and upstream answers.                            *)
(***************************************************************************)
Prediction(placeId, description, lat, lon) ==
  [place_id |-> placeId, description |-> description, lat |-> lat, lon |-> lon]

sRomeDescription == <<"R", "o", "m", "e", " ", ",", "I", "T">>

predRome == Prediction("fsq-rome", sRomeDescription, RomeLat, RomeLon)
predAtlantis == Prediction("fsq-atlantis", sAtlantis, <<"3", "6">>, <<"2", "5">>)
\* place.latitude?.toString() of a result without latitude
predBare == Prediction("fsq-bare", sRome, Undefined, Undefined)

JsError(name, message, mentionsFetch) ==
  [name |-> name, message |-> message, mentionsFetch |-> mentionsFetch]

NoError == JsError("", "", FALSE)

\* fetch rejects or response.json() throws; a non-OK answer; an OK answer
AutocompleteOutcome(kind, error, predictions) ==
  [kind |-> kind, error |-> error, predictions |-> predictions]

DestinationOutcomes ==
  { AutocompleteOutcome("throw", JsError("TypeError", "fetch failed", TRUE), <<>>),
    AutocompleteOutcome("throw", JsError("TypeError", "Failed to parse URL", FALSE), <<>>),
    AutocompleteOutcome("throw", JsError("AbortError", "This operation was aborted", FALSE), <<>>),
    AutocompleteOutcome("http", NoError, <<>>),
    AutocompleteOutcome("ok", NoError, <<>>),
    AutocompleteOutcome("ok", NoError, <<predRome>>),
    AutocompleteOutcome("ok", NoError, <<predBare>>) }

AutocompleteOutcomes ==
  { AutocompleteOutcome("throw", JsError("TypeError", "fetch failed", TRUE), <<>>),
    AutocompleteOutcome("http", NoError, <<>>),
    AutocompleteOutcome("ok", NoError, <<>>),
    AutocompleteOutcome("ok", NoError, <<predAtlantis, predRome>>) }

NearbyOutcome(kind, places) == [kind |-> kind, places |-> places]

NearbyOutcomes ==
  { NearbyOutcome("throw", <<>>),
    NearbyOutcome("http", <<>>),
    NearbyOutcome("ok", <<>>),
    NearbyOutcome("ok", <<cColosseumSquare>>),
    NearbyOutcome("ok", <<cColosseumSquare, cColosseum>>),
    NearbyOutcome("ok", <<cColosseo, cFontanaDiTrevi>>) }

ItineraryPlace(name, time) == [name |-> name, time |-> time]

ItineraryDay(day, places) == [day |-> day, places |-> places]

ResolveBody(json, destination, isArray, itinerary) ==
  [json |-> json, destination |-> destination, itineraryIsArray |-> isArray,
   itinerary |-> itinerary]

EmptyResolveBody == ResolveBody(FALSE, Undefined, FALSE, <<>>)

ValidResolveBodies ==
  { ResolveBody(TRUE, sRome, TRUE, <<>>),
    ResolveBody(TRUE, sRome, TRUE,
      << ItineraryDay(1, << ItineraryPlace(sColosseum, "morning"),
                            ItineraryPlace(sAtlantis, "evening") >>) >>),
    ResolveBody(TRUE, sRome, TRUE,
      << ItineraryDay(1, << ItineraryPlace(sColosseum, "morning"),
                            ItineraryPlace(sColosseum, "afternoon") >>),
         ItineraryDay(2, << ItineraryPlace(sColosseum, "morning") >>) >>),
    ResolveBody(TRUE, sRome, TRUE,
      << ItineraryDay(1, << ItineraryPlace(sColosseum, "morning"),
                            ItineraryPlace(sTreviFountain, "afternoon"),
                            ItineraryPlace(sNonexistent, "evening") >>) >>),
    \* the name of day 1 again on day 2, in another case and with blanks around
    ResolveBody(TRUE, sRome, TRUE,
      << ItineraryDay(1, << ItineraryPlace(sColosseum, "morning") >>),
         ItineraryDay(2, << ItineraryPlace(sColosseumSp, "evening") >>) >>),
    \* a place without a name: the body is JSON of any shape
    ResolveBody(TRUE, sRome, TRUE,
      << ItineraryDay(1, << ItineraryPlace(sColosseum, "morning"),
                            ItineraryPlace(Undefined, "evening") >>) >>) }

InvalidResolveBodies ==
  { EmptyResolveBody,
    ResolveBody(TRUE, Undefined, TRUE, <<>>),
    ResolveBody(TRUE, sRome, FALSE, <<>>) }

ResolveBodies == ValidResolveBodies \cup InvalidResolveBodies

(***************************************************************************)
(* trip/resolve: resolveCoordinates.                                       *)
(***************************************************************************)
\* nearbyPlaces.find(place => place.name.toLowerCase().trim() === normalizedSearchName)
RECURSIVE FindExact(_, _, _)
FindExact(normalizedSearchName, places, i) ==
  IF i > Len(places) THEN 0
  ELSE IF Trim(ToLowerCase(places[i].name)) = normalizedSearchName THEN i
  ELSE FindExact(normalizedSearchName, places, i + 1)

\* nearbyPlaces.find(place => placeNameLower.includes(normalizedSearchName) ||
\*                            normalizedSearchName.includes(placeNameLower))
RECURSIVE FindFuzzy(_, _, _)
FindFuzzy(normalizedSearchName, places, i) ==
  IF i > Len(places) THEN 0
  ELSE IF \/ Includes(ToLowerCase(places[i].name), normalizedSearchName)
          \/ Includes(normalizedSearchName, ToLowerCase(places[i].name))
    THEN i
  ELSE FindFuzzy(normalizedSearchName, places, i + 1)

\* a match among the nearby places by the four strategies of trip/init
NearbyMatchWithAliases(placeName, places) == FindMatch(placeName, places)

\* the first nearby place that is equal to the name or a substring match
NearbyMatchFirstAccepted(placeName, places) ==
  FindFuzzy(Trim(ToLowerCase(placeName)), places, 1)

\* the nearby place of the same normalized name, and no other
NearbyMatchExactOnly(placeName, places) ==
  FindExact(Trim(ToLowerCase(placeName)), places, 1)

\* lines 94-130: the match among the nearby places (0: none)
NearbyMatch(placeName, places) ==
  LET normalizedSearchName == Trim(ToLowerCase(placeName))
      exactMatch == FindExact(normalizedSearchName, places, 1)
  IN  IF exactMatch # 0 THEN exactMatch
      ELSE FindFuzzy(normalizedSearchName, places, 1)

\* a resolveCoordinates call; answer and pool record how its nearby search
\* settled and the places it returned
Lookup(place, key, pc, result, read, calls) ==
  [name |-> place.name, time |-> place.time, key |-> key, pc |-> pc,
   result |-> result, read |-> read, calls |-> calls,
   answer |-> "none", pool |-> <<>>]

\* day.places.map(async place => resolveCoordinates(...)): every call runs up
\* to its first await, in place order; a hit returns the cached data, a miss
\* sends the nearby search; placeName.toLowerCase() of line 65, outside the
\* try block, throws a TypeError for a place without a name
RECURSIVE StartLookups(_, _, _, _, _)
StartLookups(places, cache, lat, lon, time) ==
  IF places = <<>> THEN [lookups |-> <<>>, cache |-> cache]
  ELSE IF Head(places).name = Undefined
    THEN LET rest == StartLookups(Tail(places), cache, lat, lon, time)
         IN  [lookups |-> << Lookup(Head(places), <<>>, "threw", NoCoordinates,
                                    NoRead(NoCoordinates), 0) >> \o rest.lookups,
              cache |-> rest.cache]
  ELSE LET key == CoordinateCacheKey(Head(places).name, lat, lon)
           read == ReadCoordinateCache(cache, key, time)
           first == Lookup(Head(places), key, IF read.hit THEN "done" ELSE "nearby",
                           read.data,
                           ReadRecord(cache, key, time, read, NoCoordinates),
                           IF read.hit THEN 0 ELSE 1)
           rest == StartLookups(Tail(places), read.cache, lat, lon, time)
       IN  [lookups |-> <<first>> \o rest.lookups, cache |-> rest.cache]

\* lines 250-270: the place of the output itinerary
EnrichedPlace(lookup, lat, lon) ==
  IF lookup.result.found
    THEN [name |-> lookup.name, time |-> lookup.time, lat |-> lookup.result.lat,
          lon |-> lookup.result.lon, place_id |-> lookup.result.place_id]
    ELSE [name |-> lookup.name, time |-> lookup.time, lat |-> lat, lon |-> lon,
          place_id |-> ""]

\* lines 309-335: the catch of the handler
ResolveErrorResponse(error) ==
  IF error.name = "AbortError"
    THEN Response(500, "Coordinate resolution timeout",
                  <<"Please try again with fewer places">>, <<>>)
  ELSE IF error.mentionsFetch
    THEN Response(500, "Failed to connect to location services",
                  <<"Please check your internet connection and try again">>, <<>>)
  ELSE Response(500, error.message, <<>>, <<>>)

(***************************************************************************)
(* trip/resolve: the handler, one action per stretch between two awaits.   *)
(***************************************************************************)
ResolveIdle ==
  /\ coordinateCache = EmptyCache
  /\ resolvePc = "off"
  /\ resolveBody = EmptyResolveBody
  /\ destinationResponse = "none"
  /\ destinationLat = sZero
  /\ destinationLon = sZero
  /\ totalPlaces = 0
  /\ dayIndex = 0
  /\ lookups = <<>>
  /\ enrichedItinerary = <<>>
  /\ unresolvedPlaces = <<>>
  /\ resolvedCount = 0
  /\ resolveResponse = NoResponse

ResolveInit ==
  /\ coordinateCache = EmptyCache
  /\ resolvePc = "idle"
  /\ resolveBody = EmptyResolveBody
  /\ destinationResponse = "none"
  /\ destinationLat = sZero
  /\ destinationLon = sZero
  /\ totalPlaces = 0
  /\ dayIndex = 0
  /\ lookups = <<>>
  /\ enrichedItinerary = <<>>
  /\ unresolvedPlaces = <<>>
  /\ resolvedCount = 0
  /\ resolveResponse = NoResponse

\* itineraryData.itinerary.reduce((count, day) => count + day.places.length, 0)
RECURSIVE CountPlaces(_)
CountPlaces(itinerary) ==
  IF itinerary = <<>> THEN 0
  ELSE Len(Head(itinerary).places) + CountPlaces(Tail(itinerary))

\* lines 172-209: the body is parsed and checked, the destination lookup is sent
ResolveReceive ==
  /\ route = "resolve"
  /\ resolvePc = "idle"
  /\ \E body \in ResolveBodies :
       /\ resolveBody' = body
       /\ IF ~body.json
            THEN /\ resolveResponse' =
                      Response(400, "Invalid JSON in request body", <<>>, <<>>)
                 /\ resolvePc' = "done"
          ELSE IF ~Truthy(body.destination) \/ ~body.itineraryIsArray
            THEN /\ resolveResponse' =
                      Response(400, "Invalid itinerary structure",
                               <<"Expected: { destination, days, budget, itinerary: [...] }">>,
                               <<>>)
                 /\ resolvePc' = "done"
          ELSE /\ resolvePc' = "destination"
               /\ UNCHANGED resolveResponse
  /\ UNCHANGED <<notResolveVars, destinationResponse, now, coordinateCache, destinationLat, destinationLon,
                 totalPlaces, dayIndex, lookups, enrichedItinerary,
                 unresolvedPlaces, resolvedCount>>

\* lines 203-233: the destination lookup settles; only a rejection ends the
\* request, any other answer leaves or replaces the default coordinates '0'
ResolveDestination ==
  /\ route = "resolve"
  /\ resolvePc = "destination"
  /\ \E outcome \in DestinationOutcomes :
       /\ destinationResponse' = outcome.kind
       /\ IF outcome.kind = "throw"
            THEN /\ resolveResponse' = ResolveErrorResponse(outcome.error)
                 /\ resolvePc' = "done"
                 /\ UNCHANGED <<destinationLat, destinationLon, totalPlaces, dayIndex>>
            ELSE /\ IF outcome.kind = "ok" /\ Len(outcome.predictions) > 0
                      THEN /\ destinationLat' = outcome.predictions[1].lat
                           /\ destinationLon' = outcome.predictions[1].lon
                      ELSE UNCHANGED <<destinationLat, destinationLon>>
                 /\ totalPlaces' = CountPlaces(resolveBody.itinerary)
                 /\ dayIndex' = 1
                 /\ resolvePc' = "loop"
                 /\ UNCHANGED resolveResponse
  /\ UNCHANGED <<notResolveVars, now, coordinateCache, resolveBody, lookups,
                 enrichedItinerary, unresolvedPlaces, resolvedCount>>

\* the TypeError of placeName.toLowerCase() on undefined
NameTypeError ==
  JsError("TypeError", "Cannot read properties of undefined (reading 'toLowerCase')", FALSE)

\* lines 235-271: the lookups of the next day are started; those served from
\* the cache are resolved at once.  A lookup that threw rejects Promise.all:
\* the catch of the handler answers while the other lookups stay in flight
StartDay ==
  /\ route = "resolve"
  /\ resolvePc = "loop"
  /\ dayIndex <= Len(resolveBody.itinerary)
  /\ LET started == StartLookups(resolveBody.itinerary[dayIndex].places,
                                 coordinateCache, destinationLat, destinationLon, now)
     IN  /\ lookups' = started.lookups
         /\ coordinateCache' = started.cache
         /\ resolvedCount' = resolvedCount
              + Cardinality({ i \in 1..Len(started.lookups) : started.lookups[i].pc = "done" })
         /\ IF \E i \in 1..Len(started.lookups) : started.lookups[i].pc = "threw"
              THEN /\ resolvePc' = "aborted"
                   /\ resolveResponse' = ResolveErrorResponse(NameTypeError)
              ELSE /\ resolvePc' = "awaiting"
                   /\ UNCHANGED resolveResponse
  /\ UNCHANGED <<notResolveVars, destinationResponse, now, resolveBody, destinationLat,
                 destinationLon, totalPlaces, dayIndex, enrichedItinerary,
                 unresolvedPlaces>>

\* a completion that counts every place as resolved
CompleteLookupCountsAll(i, answered, result) ==
  /\ lookups' = [lookups EXCEPT ![i] = [answered EXCEPT !.pc = "done", !.result = result]]
  /\ resolvedCount' = resolvedCount + 1
  /\ IF result.found
       THEN UNCHANGED unresolvedPlaces
       ELSE unresolvedPlaces' = Append(unresolvedPlaces, lookups[i].name)

\* lines 250-270: resolveCoordinates returned for place i
CompleteLookup(i, answered, result) ==
  /\ lookups' = [lookups EXCEPT ![i] = [answered EXCEPT !.pc = "done", !.result = result]]
  /\ IF result.found
       THEN /\ resolvedCount' = resolvedCount + 1
            /\ UNCHANGED unresolvedPlaces
       ELSE /\ unresolvedPlaces' = Append(unresolvedPlaces, lookups[i].name)
            /\ UNCHANGED resolvedCount

\* lines 85-142: the nearby search of place i settles
NearbyReturn(i) ==
  /\ route = "resolve"
  /\ resolvePc \in {"awaiting", "aborted"}
  /\ i \in 1..Len(lookups)
  /\ lookups[i].pc = "nearby"
  /\ \E outcome \in NearbyOutcomes :
       LET match == NearbyMatch(lookups[i].name, outcome.places)
           answered == [lookups[i] EXCEPT !.answer = outcome.kind,
                                          !.pool = outcome.places]
           result == Coordinates(outcome.places[match].lat, outcome.places[match].lon,
                                 outcome.places[match].id)
       IN  IF outcome.kind = "throw"
             THEN /\ CompleteLookup(i, answered, NoCoordinates)
                  /\ UNCHANGED coordinateCache
           ELSE IF outcome.kind = "ok" /\ match # 0
             THEN /\ coordinateCache' =
                       CacheSet(coordinateCache, lookups[i].key, CacheEntry(result, now))
                  /\ CompleteLookup(i, answered, result)
           ELSE /\ lookups' = [lookups EXCEPT ![i] =
                                 [answered EXCEPT !.pc = "autocomplete",
                                                  !.calls = lookups[i].calls + 1]]
                /\ UNCHANGED <<coordinateCache, unresolvedPlaces, resolvedCount>>
  /\ UNCHANGED <<notResolveVars, destinationResponse, now, resolvePc, resolveBody, destinationLat,
                 destinationLon, totalPlaces, dayIndex, enrichedItinerary,
                 resolveResponse>>

\* lines 139-168: the autocomplete fallback of place i settles
AutocompleteReturn(i) ==
  /\ route = "resolve"
  /\ resolvePc \in {"awaiting", "aborted"}
  /\ i \in 1..Len(lookups)
  /\ lookups[i].pc = "autocomplete"
  /\ \E outcome \in AutocompleteOutcomes :
       LET bestMatch == outcome.predictions[1]
           result == Coordinates(bestMatch.lat, bestMatch.lon, bestMatch.place_id)
       IN  IF outcome.kind = "ok" /\ Len(outcome.predictions) > 0
             THEN /\ coordinateCache' =
                       CacheSet(coordinateCache, lookups[i].key, CacheEntry(result, now))
                  /\ CompleteLookup(i, lookups[i], result)
             ELSE /\ CompleteLookup(i, lookups[i], NoCoordinates)
                  /\ UNCHANGED coordinateCache
  /\ UNCHANGED <<notResolveVars, destinationResponse, now, resolvePc, resolveBody, destinationLat,
                 destinationLon, totalPlaces, dayIndex, enrichedItinerary,
                 resolveResponse>>

\* the day is assembled from the lookups that have returned so far
FinishDayEarly ==
  /\ route = "resolve"
  /\ resolvePc = "awaiting"
  /\ \E i \in 1..Len(lookups) : lookups[i].pc = "done"
  /\ enrichedItinerary' = Append(enrichedItinerary,
       [day |-> resolveBody.itinerary[dayIndex].day,
        places |-> [i \in 1..Len(SelectSeq(lookups, LAMBDA l : l.pc = "done")) |->
                      EnrichedPlace(SelectSeq(lookups, LAMBDA l : l.pc = "done")[i],
                                    destinationLat, destinationLon)]])
  /\ dayIndex' = dayIndex + 1
  /\ resolvePc' = "loop"
  /\ UNCHANGED <<notResolveVars, destinationResponse, now, coordinateCache, resolveBody, destinationLat,
                 destinationLon, totalPlaces, lookups, unresolvedPlaces,
                 resolvedCount, resolveResponse>>

\* the day is pushed without waiting for its lookups
FinishDayUnjoined ==
  /\ route = "resolve"
  /\ resolvePc = "awaiting"
  /\ enrichedItinerary' = Append(enrichedItinerary,
       [day |-> resolveBody.itinerary[dayIndex].day,
        places |-> [i \in 1..Len(lookups) |->
                      EnrichedPlace(lookups[i], destinationLat, destinationLon)]])
  /\ dayIndex' = dayIndex + 1
  /\ resolvePc' = "loop"
  /\ UNCHANGED <<notResolveVars, destinationResponse, now, coordinateCache, resolveBody, destinationLat,
                 destinationLon, totalPlaces, lookups, unresolvedPlaces,
                 resolvedCount, resolveResponse>>

\* lines 273-277: Promise.all of the day resolved, the day is pushed
FinishDay ==
  /\ route = "resolve"
  /\ resolvePc = "awaiting"
  /\ \A i \in 1..Len(lookups) : lookups[i].pc = "done"
  /\ enrichedItinerary' = Append(enrichedItinerary,
       [day |-> resolveBody.itinerary[dayIndex].day,
        places |-> [i \in 1..Len(lookups) |->
                      EnrichedPlace(lookups[i], destinationLat, destinationLon)]])
  /\ dayIndex' = dayIndex + 1
  /\ resolvePc' = "loop"
  /\ UNCHANGED <<notResolveVars, destinationResponse, now, coordinateCache, resolveBody, destinationLat,
                 destinationLon, totalPlaces, lookups, unresolvedPlaces,
                 resolvedCount, resolveResponse>>

\* lines 279-307: every day is done, the enriched itinerary is returned
ResolveRespond ==
  /\ route = "resolve"
  /\ resolvePc = "loop"
  /\ dayIndex > Len(resolveBody.itinerary)
  /\ resolveResponse' = Response(200, "", <<>>, enrichedItinerary)
  /\ resolvePc' = "done"
  /\ UNCHANGED <<notResolveVars, destinationResponse, now, coordinateCache, resolveBody, destinationLat,
                 destinationLon, totalPlaces, dayIndex, lookups, enrichedItinerary,
                 unresolvedPlaces, resolvedCount>>

\* time passes while requests wait
ResolveTick ==
  /\ route = "resolve"
  /\ now < StartTime + MaxTicks * ResolveTickMs
  /\ now' = now + ResolveTickMs
  /\ UNCHANGED <<notResolveVars, resolveVars>>

(***************************************************************************)
(* trip/init: request bodies and upstream answers.                         *)
(***************************************************************************)
\* CACHE_DURATION of trip/init: 10 minutes
VALIDATION_CACHE_DURATION == 10 * 60 * 1000

\* the clock of a trip/init run advances in half durations
InitTickMs == VALIDATION_CACHE_DURATION \div 2

VALID_BUDGETS == {"low", "moderate", "luxury"}

sBlank == <<" ", " ">>
sRomeSp == <<" ", "R", "O", "M", "E", " ">>
sDestPrefix == <<"d", "e", "s", "t", "_">>
sPlacesPrefix == <<"p", "l", "a", "c", "e", "s", "_">>

\* destination and the elements of places are strings, or Undefined for a
\* value of any other type
InitBody(json, destination, isArray, places, days, budget) ==
  [json |-> json, destination |-> destination, placesIsArray |-> isArray,
   places |-> places, days |-> days, budget |-> budget]

EmptyInitBody == InitBody(FALSE, Undefined, FALSE, <<>>, JsUndefined, "undefined")

ValidInitBodies ==
  { InitBody(TRUE, sRome, TRUE, <<sColosseum, sTreviFountain, sNonexistent>>,
             JsNumber(20), "moderate"),
    InitBody(TRUE, sRome, TRUE, <<sNonexistent>>, JsNumber(20), "moderate"),
    InitBody(TRUE, sRome, TRUE, <<sNonexistent, sAtlantis>>, JsNumber(300), "low"),
    InitBody(TRUE, sRome, TRUE, <<sColosseum>>, JsNumber(5), "low"),
    InitBody(TRUE, sRome, TRUE, <<sVisitColosseum, sColosseum>>, JsNumber(20), "moderate"),
    InitBody(TRUE, sRomeSp, TRUE, <<sAtlantis, sColosseum>>, JsNumber(25), "luxury") }

InvalidInitBodies ==
  { EmptyInitBody,
    InitBody(TRUE, Undefined, TRUE, <<sColosseum>>, JsNumber(20), "moderate"),
    InitBody(TRUE, sBlank, TRUE, <<sColosseum>>, JsNumber(20), "moderate"),
    InitBody(TRUE, sRome, FALSE, <<>>, JsNumber(20), "moderate"),
    InitBody(TRUE, sRome, TRUE, <<>>, JsNumber(20), "moderate"),
    InitBody(TRUE, sRome, TRUE, <<sColosseum, sBlank>>, JsNumber(20), "moderate"),
    InitBody(TRUE, sRome, TRUE, <<Undefined>>, JsNumber(20), "moderate"),
    InitBody(TRUE, sRome, TRUE, <<sColosseum>>, JsNumber(0), "moderate"),
    InitBody(TRUE, sRome, TRUE, <<sColosseum>>, JsNumber(310), "moderate"),
    InitBody(TRUE, sRome, TRUE, <<sColosseum>>, JsString(20), "moderate"),
    InitBody(TRUE, sRome, TRUE, <<sColosseum>>, JsNumber(20), "cheap"),
    InitBody(TRUE, sBlank, TRUE, <<>>, JsUndefined, "undefined") }

InitBodies == ValidInitBodies \cup InvalidInitBodies

\* the answers of /api/places/autocomplete to the destination lookup; the
\* message of a non-OK answer is the error field of its body ("": none)
InitDestinationOutcomes ==
  { AutocompleteOutcome("throw", JsError("TypeError", "fetch failed", TRUE), <<>>),
    AutocompleteOutcome("throw", JsError("SyntaxError", "Unexpected token", FALSE), <<>>),
    AutocompleteOutcome("http", JsError("", "Foursquare API key missing", FALSE), <<>>),
    AutocompleteOutcome("http", NoError, <<>>),
    AutocompleteOutcome("ok", NoError, <<>>),
    AutocompleteOutcome("ok", NoError, <<predRome, predAtlantis>>) }

\* the answers of /api/places/nearby
InitNearbyOutcome(kind, error, places) ==
  [kind |-> kind, error |-> error, places |-> places]

InitNearbyOutcomes ==
  { InitNearbyOutcome("throw", JsError("AbortError", "This operation was aborted", FALSE), <<>>),
    InitNearbyOutcome("http", JsError("", "Overpass API returned 504", FALSE), <<>>),
    InitNearbyOutcome("ok", NoError, <<>>),
    InitNearbyOutcome("ok", NoError, <<cVilla>>),
    InitNearbyOutcome("ok", NoError, <<cColosseo, cFontanaDiTrevi>>) }

InitResponse(status, error, details, destination, places, days, budget, info) ==
  [status |-> status, error |-> error, details |-> details,
   destination |-> destination, places |-> places, days |-> days,
   budget |-> budget, validation_info |-> info]

\* a summary that reports the matched references as the requested ones
ValidationInfoOfMatched(total, valid, invalid) ==
  [total_places_requested |-> valid, valid_places_found |-> valid,
   invalid_places |-> invalid]

ValidationInfo(total, valid, invalid) ==
  [total_places_requested |-> total, valid_places_found |-> valid,
   invalid_places |-> invalid]

NoValidationInfo == ValidationInfo(0, 0, <<>>)

NoPrediction == Prediction("", <<>>, Undefined, Undefined)

InitErrorResponse(status, error, details) ==
  InitResponse(status, error, details, NoPrediction, <<>>, 0, "", NoValidationInfo)

NoInitResponse == InitErrorResponse(0, "", <<>>)

(***************************************************************************)
(* trip/init: validation, cache and matching.                              *)
(***************************************************************************)
\* lines 61-77: the errors array, in the order the rules are checked
InitValidationErrors(body) ==
  (IF ~Truthy(body.destination) \/ Len(Trim(body.destination)) = 0
     THEN <<"Destination is required and must be a non-empty string">> ELSE <<>>)
  \o (IF ~body.placesIsArray \/ Len(body.places) = 0
        THEN <<"Places must be a non-empty array">>
      ELSE IF \E i \in 1..Len(body.places) :
                body.places[i] = Undefined \/ Len(Trim(body.places[i])) = 0
        THEN <<"All places must be non-empty strings">>
      ELSE <<>>)
  \o (IF DaysInvalid(body.days)
        THEN <<"Days must be a positive number between 1 and 30">> ELSE <<>>)
  \o (IF body.budget \notin VALID_BUDGETS
        THEN <<"Budget must be one of: low, moderate, luxury">> ELSE <<>>)

\* `dest_${destination.toLowerCase().trim()}`
DestinationCacheKey(destination) == sDestPrefix \o Trim(ToLowerCase(destination))

\* `places_${destinationResult.lat}_${destinationResult.lon}`
PlacesCacheKey(lat, lon) ==
  sPlacesPrefix \o TemplateString(lat) \o <<"_">> \o TemplateString(lon)

\* Date.now() - cached.timestamp < CACHE_DURATION
ValidationFresh(entry, time) == time - entry.timestamp < VALIDATION_CACHE_DURATION

\* lines 95-100 and 153-158: a fresh entry is used, any other is left alone;
\* data is the cached value of a hit
ReadValidationCache(cache, key, time, noData) ==
  IF key \in DOMAIN cache /\ ValidationFresh(cache[key], time)
    THEN [hit |-> TRUE, data |-> cache[key].data, cache |-> cache]
    ELSE [hit |-> FALSE, data |-> noData, cache |-> cache]

\* a pool without its element at position i
WithoutCandidate(nearby, i) ==
  [k \in 1..(Len(nearby) - 1) |-> IF k < i THEN nearby[k] ELSE nearby[k + 1]]

\* matching in which a candidate serves one reference only
RECURSIVE MatchPlacesConsuming(_, _)
MatchPlacesConsuming(places, nearby) ==
  IF places = <<>> THEN [validated |-> <<>>, invalid |-> <<>>]
  ELSE LET matchedPlace == FindMatch(Head(places), nearby)
           rest == MatchPlacesConsuming(Tail(places),
                     IF matchedPlace # 0 THEN WithoutCandidate(nearby, matchedPlace)
                                         ELSE nearby)
       IN  IF matchedPlace # 0
             THEN [validated |->
                     << Candidate(nearby[matchedPlace].name, nearby[matchedPlace].id,
                                  nearby[matchedPlace].lat, nearby[matchedPlace].lon) >>
                     \o rest.validated,
                   invalid |-> rest.invalid]
             ELSE [validated |-> rest.validated,
                   invalid |-> <<Head(places)>> \o rest.invalid]

\* lines 202-267: every reference is matched against the nearby places
RECURSIVE MatchPlaces(_, _)
MatchPlaces(places, nearby) ==
  IF places = <<>> THEN [validated |-> <<>>, invalid |-> <<>>]
  ELSE LET matchedPlace == FindMatch(Head(places), nearby)
           rest == MatchPlaces(Tail(places), nearby)
       IN  IF matchedPlace # 0
             THEN [validated |->
                     << Candidate(nearby[matchedPlace].name, nearby[matchedPlace].id,
                                  nearby[matchedPlace].lat, nearby[matchedPlace].lon) >>
                     \o rest.validated,
                   invalid |-> rest.invalid]
             ELSE [validated |-> rest.validated,
                   invalid |-> <<Head(places)>> \o rest.invalid]

\* description.split(',')[0]
RECURSIVE BeforeComma(_)
BeforeComma(s) ==
  IF s = <<>> \/ Head(s) = "," THEN <<>> ELSE <<Head(s)>> \o BeforeComma(Tail(s))

\* Math.floor of a number kept in tenths
Floor(days) == days.tenths \div 10

\* lines 321-339: the catch of the handler
InitCatchResponse(error) ==
  IF error.name = "AbortError"
    THEN InitErrorResponse(500, "Validation timeout - please try again", <<>>)
  ELSE IF error.mentionsFetch
    THEN InitErrorResponse(500, "Failed to connect to location services", <<>>)
  ELSE InitErrorResponse(500, "Internal server error during trip validation", <<>>)

\* one string of a details array: a fixed text, or `"${place}" not found near
\* ${destination}`
Detail(text, place, destination) ==
  [text |-> text, place |-> place, destination |-> destination]

Details(texts) == [i \in 1..Len(texts) |-> Detail(texts[i], <<>>, <<>>)]

(***************************************************************************)
(* trip/init: the handler.  The state of the request in progress is kept   *)
(* in a record that the operators below thread through the statements      *)
(* executed between two awaits.                                            *)
(***************************************************************************)
NoInitReads == [destination |-> NoRead(NoPrediction), places |-> NoRead(<<>>)]

NoInitCalls == [autocomplete |-> 0, nearby |-> 0]

\* the state of a request that has just been received
InitRequest(cache, body) ==
  [cache |-> cache, pc |-> "received", body |-> body,
   destinationResult |-> NoPrediction, nearbyPlaces |-> <<>>,
   validatedPlaces |-> <<>>, invalidPlaces |-> <<>>,
   reads |-> NoInitReads, calls |-> NoInitCalls, response |-> NoInitResponse]

InitRespond(st, response) == [st EXCEPT !.pc = "done", !.response = response]

\* matching that answers 200 whatever number of references matched
InitMatchAlwaysSucceeds(st) ==
  LET matched == MatchPlaces(st.body.places, st.nearbyPlaces)
  IN  InitRespond([st EXCEPT !.validatedPlaces = matched.validated,
                             !.invalidPlaces = matched.invalid],
        InitResponse(200, "", <<>>,
          Prediction(st.destinationResult.place_id,
                     Trim(BeforeComma(st.destinationResult.description)),
                     st.destinationResult.lat, st.destinationResult.lon),
          matched.validated, Floor(st.body.days), st.body.budget,
          ValidationInfo(Len(st.body.places), Len(matched.validated),
                         matched.invalid)))

\* lines 196-319: matching, then the 404 or the 200 response
InitMatchAndRespond(st) ==
  LET matched == MatchPlaces(st.body.places, st.nearbyPlaces)
      withPlaces == [st EXCEPT !.validatedPlaces = matched.validated,
                               !.invalidPlaces = matched.invalid]
  IN  IF Len(matched.validated) = 0
        THEN InitRespond(withPlaces,
               InitErrorResponse(404,
                 "None of the requested places were found near the destination",
                 [i \in 1..Len(matched.invalid) |->
                    Detail("not found near", matched.invalid[i], st.body.destination)]))
        ELSE InitRespond(withPlaces,
               InitResponse(200, "", <<>>,
                 Prediction(st.destinationResult.place_id,
                            Trim(BeforeComma(st.destinationResult.description)),
                            st.destinationResult.lat, st.destinationResult.lon),
                 matched.validated, Floor(st.body.days), st.body.budget,
                 ValidationInfo(Len(st.body.places), Len(matched.validated),
                                matched.invalid)))

\* lines 149-194 up to the await: the nearby places are read from the cache
\* or the nearby search is sent
InitReadPlaces(st, time) ==
  LET key == PlacesCacheKey(st.destinationResult.lat, st.destinationResult.lon)
      read == ReadValidationCache(st.cache, key, time, <<>>)
      afterRead == [st EXCEPT !.cache = read.cache,
                              !.reads.places = ReadRecord(st.cache, key, time, read, <<>>)]
  IN  IF read.hit
        THEN InitMatchAndRespond([afterRead EXCEPT !.nearbyPlaces = read.data])
        ELSE [afterRead EXCEPT !.pc = "nearby", !.calls.nearby = @ + 1]

\* lines 43-111: parsing, validation, the read of the destination from the
\* cache or the sending of the autocomplete lookup
InitStart(st, time) ==
  IF ~st.body.json
    THEN InitRespond(st, InitErrorResponse(400, "Invalid JSON in request body", <<>>))
  ELSE IF InitValidationErrors(st.body) # <<>>
    THEN InitRespond(st, InitErrorResponse(400, "Validation failed",
                                           Details(InitValidationErrors(st.body))))
  ELSE LET key == DestinationCacheKey(st.body.destination)
           read == ReadValidationCache(st.cache, key, time, NoPrediction)
           afterRead == [st EXCEPT !.cache = read.cache,
                                   !.reads.destination =
                                      ReadRecord(st.cache, key, time, read, NoPrediction)]
       IN  IF read.hit
             THEN InitReadPlaces([afterRead EXCEPT !.destinationResult = read.data], time)
             ELSE [afterRead EXCEPT !.pc = "autocomplete", !.calls.autocomplete = @ + 1]

\* a destination lookup that also stores the absence of predictions
InitAfterAutocompleteCachesEmpty(st, outcome, time) ==
  IF outcome.kind = "throw" THEN InitRespond(st, InitCatchResponse(outcome.error))
  ELSE IF outcome.kind = "http"
    THEN InitRespond(st, InitErrorResponse(500, "Failed to validate destination",
           Details(<< IF outcome.error.message # "" THEN outcome.error.message
                      ELSE "Autocomplete service unavailable" >>)))
  ELSE IF Len(outcome.predictions) = 0
    THEN InitRespond(
           [st EXCEPT !.cache = CacheSet(st.cache, DestinationCacheKey(st.body.destination),
                                         CacheEntry(NoPrediction, time))],
           InitErrorResponse(404, "Destination \"${destination}\" not found",
             Details(<<"Please try a more specific location name">>)))
  ELSE InitReadPlaces(
         [st EXCEPT !.destinationResult = outcome.predictions[1],
                    !.cache = CacheSet(st.cache, DestinationCacheKey(st.body.destination),
                                       CacheEntry(outcome.predictions[1], time))],
         time)

\* lines 113-145: the autocomplete lookup settles
InitAfterAutocomplete(st, outcome, time) ==
  IF outcome.kind = "throw" THEN InitRespond(st, InitCatchResponse(outcome.error))
  ELSE IF outcome.kind = "http"
    THEN InitRespond(st, InitErrorResponse(500, "Failed to validate destination",
           Details(<< IF outcome.error.message # "" THEN outcome.error.message
                      ELSE "Autocomplete service unavailable" >>)))
  ELSE IF Len(outcome.predictions) = 0
    THEN InitRespond(st, InitErrorResponse(404, "Destination \"${destination}\" not found",
           Details(<<"Please try a more specific location name">>)))
  ELSE InitReadPlaces(
         [st EXCEPT !.destinationResult = outcome.predictions[1],
                    !.cache = CacheSet(st.cache, DestinationCacheKey(st.body.destination),
                                       CacheEntry(outcome.predictions[1], time))],
         time)

\* lines 175-194: the nearby search settles
InitAfterNearby(st, outcome, time) ==
  IF outcome.kind = "throw" THEN InitRespond(st, InitCatchResponse(outcome.error))
  ELSE IF outcome.kind = "http"
    THEN InitRespond(st, InitErrorResponse(500, "Failed to validate places",
           Details(<< IF outcome.error.message # "" THEN outcome.error.message
                      ELSE "Nearby places service unavailable" >>)))
  ELSE InitMatchAndRespond(
         [st EXCEPT !.nearbyPlaces = outcome.places,
                    !.cache = CacheSet(st.cache,
                                PlacesCacheKey(st.destinationResult.lat,
                                               st.destinationResult.lon),
                                CacheEntry(outcome.places, time))])

\* the request in progress, as a record
InitCurrent ==
  [cache |-> validationCache, pc |-> initPc, body |-> initBody,
   destinationResult |-> destinationResult, nearbyPlaces |-> nearbyPlaces,
   validatedPlaces |-> validatedPlaces, invalidPlaces |-> invalidPlaces,
   reads |-> initReads, calls |-> initCalls, response |-> initResponse]

InitStore(st) ==
  /\ validationCache' = st.cache
  /\ initPc' = st.pc
  /\ initBody' = st.body
  /\ destinationResult' = st.destinationResult
  /\ nearbyPlaces' = st.nearbyPlaces
  /\ validatedPlaces' = st.validatedPlaces
  /\ invalidPlaces' = st.invalidPlaces
  /\ initReads' = st.reads
  /\ initCalls' = st.calls
  /\ initResponse' = st.response

InitIdle ==
  /\ validationCache = EmptyCache
  /\ initPc = "off"
  /\ initBody = EmptyInitBody
  /\ destinationResult = NoPrediction
  /\ nearbyPlaces = <<>>
  /\ validatedPlaces = <<>>
  /\ invalidPlaces = <<>>
  /\ initReads = NoInitReads
  /\ initCalls = NoInitCalls
  /\ initResponse = NoInitResponse

InitInit ==
  /\ validationCache = EmptyCache
  /\ initPc = "idle"
  /\ initBody = EmptyInitBody
  /\ destinationResult = NoPrediction
  /\ nearbyPlaces = <<>>
  /\ validatedPlaces = <<>>
  /\ invalidPlaces = <<>>
  /\ initReads = NoInitReads
  /\ initCalls = NoInitCalls
  /\ initResponse = NoInitResponse

\* a request arrives, the previous one having been answered
InitReceive ==
  /\ route = "init"
  /\ initPc \in {"idle", "done"}
  /\ \E body \in InitBodies : InitStore(InitStart(InitRequest(validationCache, body), now))
  /\ UNCHANGED <<notInitVars, now>>

InitAutocompleteReturn ==
  /\ route = "init"
  /\ initPc = "autocomplete"
  /\ \E outcome \in InitDestinationOutcomes :
       InitStore(InitAfterAutocomplete(InitCurrent, outcome, now))
  /\ UNCHANGED <<notInitVars, now>>

InitNearbyReturn ==
  /\ route = "init"
  /\ initPc = "nearby"
  /\ \E outcome \in InitNearbyOutcomes :
       InitStore(InitAfterNearby(InitCurrent, outcome, now))
  /\ UNCHANGED <<notInitVars, now>>

\* time passes while requests wait
InitTick ==
  /\ route = "init"
  /\ now < StartTime + MaxTicks * InitTickMs
  /\ now' = now + InitTickMs
  /\ UNCHANGED <<notInitVars, initVars>>

(***************************************************************************)
(* Specifications.                                                         *)
(***************************************************************************)
SpecMatchInit ==
  route = "match" /\ now = StartTime /\ MatchInit /\ CreateIdle /\ ResolveIdle /\ InitIdle

SpecMatchNext == ApplyMatch

SpecMatch == SpecMatchInit /\ [][SpecMatchNext]_vars

SpecCreateInit ==
  route = "create" /\ now = StartTime /\ MatchIdle /\ CreateInit /\ ResolveIdle /\ InitIdle

SpecCreateNext ==
  \/ \E r \in CreateRequests : CreateReceive(r)
  \/ \E r \in CreateRequests : CreateWake(r)
  \/ \E r \in CreateRequests : CreateGroqReturn(r)
  \/ CreateTick

SpecCreate == SpecCreateInit /\ [][SpecCreateNext]_vars

\* the event loop: time passes and a timer that has expired runs its callback
SpecCreateLive ==
  /\ SpecCreate
  /\ WF_vars(CreateTick)
  /\ \A r \in CreateRequests : WF_vars(CreateWake(r))

SpecResolveInit ==
  route = "resolve" /\ now = StartTime /\ MatchIdle /\ CreateIdle /\ ResolveInit /\ InitIdle

SpecResolveNext ==
  \/ ResolveReceive
  \/ ResolveDestination
  \/ StartDay
  \/ \E i \in 1..Len(lookups) : NearbyReturn(i)
  \/ \E i \in 1..Len(lookups) : AutocompleteReturn(i)
  \/ FinishDay
  \/ ResolveRespond
  \/ ResolveTick

SpecResolve == SpecResolveInit /\ [][SpecResolveNext]_vars

SpecInitInit ==
  route = "init" /\ now = StartTime /\ MatchIdle /\ CreateIdle /\ ResolveIdle /\ InitInit

SpecInitNext ==
  \/ InitReceive
  \/ InitAutocompleteReturn
  \/ InitNearbyReturn
  \/ InitTick

SpecInit == SpecInitInit /\ [][SpecInitNext]_vars

\* the two handlers that look places up and cache what they find
SpecGeoInit == SpecInitInit \/ SpecResolveInit

SpecGeoNext == SpecInitNext \/ SpecResolveNext

SpecGeo == SpecGeoInit /\ [][SpecGeoNext]_vars

(***************************************************************************)
(* Properties.                                                             *)
(***************************************************************************)
\* the first strategy, in the order of the source, that accepts a candidate
\* for a reference (0: none does)
StrategyOf(requested, nearbyName) ==
  LET normalizedRequested == Normalize(requested)
      normalizedNearby == Normalize(nearbyName)
  IN  IF ExactMatch(normalizedRequested, normalizedNearby) THEN 1
      ELSE IF ContainsMatch(normalizedRequested, normalizedNearby) THEN 2
      ELSE IF LandmarkMatch(normalizedRequested, normalizedNearby) THEN 3
      ELSE IF WordMatch(normalizedRequested, normalizedNearby) THEN 4
      ELSE 0

PoolStrategies ==
  { StrategyOf(requestedPlace, candidatePool[i].name) : i \in 1..Len(candidatePool) }
    \ {0}

\* C1: any two calls to the itinerary generator, of whatever requests, are
\* issued at least MIN_GROQ_INTERVAL milliseconds apart.
C1_GeneratorCallsSpaced ==
  \A i, j \in 1..Len(groqCalls) :
    i < j => groqCalls[j] - groqCalls[i] >= MIN_GROQ_INTERVAL

C3_NoSignificantWordsUnmatched ==
  ( /\ matchPc = "done"
    /\ WordsOf(Normalize(requestedPlace)) = <<>>
    /\ \A i \in 1..Len(candidatePool) :
         StrategyOf(requestedPlace, candidatePool[i].name) \notin {1, 2, 3} )
  => matchedIndex = 0

\* C6: every place of every day of a successfully returned trip/create
\* itinerary has a non-empty lat and lon.
C6_CreatedPlacesHaveCoordinates ==
  \A r \in CreateRequests :
    createResponse[r].status = 200 =>
      \A d \in 1..Len(createResponse[r].itinerary) :
        \A p \in 1..Len(createResponse[r].itinerary[d].places) :
          /\ Truthy(createResponse[r].itinerary[d].places[p].lat)
          /\ Truthy(createResponse[r].itinerary[d].places[p].lon)

\* a valid trip/init request whose destination and nearby places were
\* obtained, and whose references have all been matched against them
InitMatched ==
  /\ initPc = "done"
  /\ initBody.json
  /\ InitValidationErrors(initBody) = <<>>
  /\ Len(validatedPlaces) + Len(invalidPlaces) = Len(initBody.places)

\* C4 as claimed: references that match no candidate never cause an error
\* response; the response is a 200 carrying the matched places and the
\* unmatched references, however many references match nothing.
C4_UnmatchedNeverAnError ==
  InitMatched =>
    /\ initResponse.status = 200
    /\ initResponse.places = validatedPlaces
    /\ initResponse.validation_info.invalid_places = invalidPlaces

\* C4 as amended: when at least one reference matches, the response is a 200
\* carrying the matched places and the unmatched references; when no
\* reference matches, it is a 404 whose details name every reference.
C4_UnmatchedAnErrorOnlyWhenAll ==
  InitMatched =>
    IF validatedPlaces # <<>>
      THEN /\ initResponse.status = 200
           /\ initResponse.places = validatedPlaces
           /\ initResponse.validation_info.invalid_places = invalidPlaces
      ELSE /\ initResponse.status = 404
           /\ invalidPlaces = initBody.places
           /\ Len(initResponse.details) = Len(invalidPlaces)
           /\ \A i \in 1..Len(invalidPlaces) :
                initResponse.details[i].place = invalidPlaces[i]

\* C4 witness: a 200 response that carries matched places and a non-empty
\* list of unmatched references.
C4_Witness ==
  /\ InitMatched
  /\ initResponse.status = 200
  /\ Len(validatedPlaces) >= 1
  /\ Len(initResponse.validation_info.invalid_places) >= 1

\* C5: in every 200 response of trip/resolve, a place whose lookup gave no
\* result is listed in unresolved_places and carries the destination's
\* coordinates as lat and lon, neither of them absent.
C5_UnresolvedCarryDestinationCoordinates ==
  resolveResponse.status = 200 =>
    \A d \in 1..Len(resolveResponse.itinerary) :
      \A p \in 1..Len(resolveResponse.itinerary[d].places) :
        LET place == resolveResponse.itinerary[d].places[p]
        IN  place.place_id = "" =>
              /\ \E u \in 1..Len(unresolvedPlaces) : unresolvedPlaces[u] = place.name
              /\ place.lat = destinationLat
              /\ place.lon = destinationLon
              /\ Truthy(place.lat)
              /\ Truthy(place.lon)

\* C7, trip/init: a non-OK destination lookup ends the request with an error,
\* no nearby search having been sent and no reference having been matched.
C7_InitDestinationFailureAborts ==
  initResponse.error = "Failed to validate destination" =>
    /\ initPc = "done"
    /\ initResponse.status = 500
    /\ initCalls.nearby = 0
    /\ validatedPlaces = <<>>
    /\ invalidPlaces = <<>>

\* C7, trip/resolve: a non-OK destination lookup ends the request with an
\* error, no lookup of a place having been started.
C7_ResolveDestinationFailureAborts ==
  destinationResponse = "http" =>
    /\ resolvePc = "done"
    /\ resolveResponse.status >= 400
    /\ lookups = <<>>

\* C7: in trip/init and in trip/resolve, a non-OK answer to the destination
\* lookup aborts the request: it ends with an error response and no place
\* matching or per-place coordinate lookup is performed.
C7_DestinationFailureAborts ==
  C7_InitDestinationFailureAborts /\ C7_ResolveDestinationFailureAborts

\* C8: in trip/resolve, once the destination lookup has settled, a failure of
\* a place's lookup never aborts the request: the response is a 200 with
\* every input place, and a place carries the fallback coordinates only when
\* its lookup gave no result.
C8_PlaceFailureNeverAborts ==
  /\ (dayIndex >= 1 /\ resolveResponse.status # 0) =>
       /\ resolveResponse.status = 200
       /\ Len(resolveResponse.itinerary) = Len(resolveBody.itinerary)
       /\ \A d \in 1..Len(resolveBody.itinerary) :
            /\ Len(resolveResponse.itinerary[d].places)
                 = Len(resolveBody.itinerary[d].places)
            /\ \A p \in 1..Len(resolveBody.itinerary[d].places) :
                 resolveResponse.itinerary[d].places[p].name
                   = resolveBody.itinerary[d].places[p].name
  /\ (resolvePc \in {"loop", "done"} /\ dayIndex > 1) =>
       \A i \in 1..Len(lookups) :
         LET place == enrichedItinerary[dayIndex - 1].places[i]
         IN  IF lookups[i].result.found
               THEN /\ place.lat = lookups[i].result.lat
                    /\ place.lon = lookups[i].result.lon
                    /\ place.place_id = lookups[i].result.place_id
               ELSE /\ place.lat = destinationLat
                    /\ place.lon = destinationLon

\* C8 restricted to itineraries whose places all have a name: the same
\* property, which the handler then satisfies.
C8_NamedPlaceFailureNeverAborts ==
  (\A d \in 1..Len(resolveBody.itinerary) :
     \A p \in 1..Len(resolveBody.itinerary[d].places) :
       resolveBody.itinerary[d].places[p].name # Undefined)
  => C8_PlaceFailureNeverAborts

\* what a coordinate-cache read must have done, given the age of the entry
CoordinateReadRespectsTTL(lookup) ==
  /\ (lookup.read.present /\ lookup.read.age < COORDINATE_CACHE_DURATION) =>
       /\ lookup.read.hit
       /\ lookup.calls = 0
       /\ lookup.pc = "done"
       /\ lookup.result = lookup.read.stored
  /\ (lookup.read.present /\ lookup.read.age >= COORDINATE_CACHE_DURATION) =>
       /\ ~lookup.read.hit
       /\ lookup.calls >= 1

\* what a validation-cache read must have done, given the age of the entry
ValidationReadRespectsTTL(read, calls, used) ==
  /\ (read.present /\ read.age < VALIDATION_CACHE_DURATION) =>
       /\ read.hit
       /\ calls = 0
       /\ used = read.stored
  /\ (read.present /\ read.age >= VALIDATION_CACHE_DURATION) =>
       /\ ~read.hit
       /\ calls = 1

\* C9: for both caches, a lookup that finds an entry younger than the TTL
\* returns the stored value without an upstream call, and a lookup that
\* finds an entry whose age has reached the TTL misses and calls upstream.
C9_CacheReadsRespectTTL ==
  /\ \A i \in 1..Len(lookups) : CoordinateReadRespectsTTL(lookups[i])
  /\ ValidationReadRespectsTTL(initReads.destination, initCalls.autocomplete,
                               destinationResult)
  /\ ValidationReadRespectsTTL(initReads.places, initCalls.nearby, nearbyPlaces)

\* C9 witness: a coordinate lookup found an entry whose age is exactly the
\* TTL and went upstream.
C9_Witness ==
  \E i \in 1..Len(lookups) :
    /\ lookups[i].read.present
    /\ lookups[i].read.age = COORDINATE_CACHE_DURATION
    /\ ~lookups[i].read.hit
    /\ lookups[i].calls >= 1

\* C10 as claimed: no cache read modifies the cache map; a stale entry is
\* left in place by the read that finds it.
C10_ReadsNeverModifyCache ==
  /\ \A i \in 1..Len(lookups) : lookups[i].read.intact
  /\ initReads.destination.intact
  /\ initReads.places.intact

\* C10 as amended: a read that hits a fresh entry, or finds none, leaves the
\* map unchanged in both caches; a read of a stale entry leaves it in place
\* in the trip/init cache and deletes it from the trip/resolve cache.
C10_OnlyStaleCoordinateReadsEvict ==
  /\ \A i \in 1..Len(lookups) :
       IF lookups[i].read.present /\ ~lookups[i].read.hit
         THEN lookups[i].read.evicted /\ ~lookups[i].read.intact
         ELSE lookups[i].read.intact
  /\ initReads.destination.intact
  /\ initReads.places.intact

\* C10 witness: a coordinate lookup found a stale entry and deleted it.
C10_Witness ==
  \E i \in 1..Len(lookups) :
    /\ lookups[i].read.present
    /\ lookups[i].read.evicted
    /\ lookups[i].read.age >= COORDINATE_CACHE_DURATION

\* the day whose lookups the variable lookups holds
LookupDay == IF resolvePc \in {"awaiting", "aborted"} THEN dayIndex ELSE dayIndex - 1

\* the destination texts of the trip/init requests
InitDestinations ==
  { body.destination : body \in { b \in InitBodies : b.destination # Undefined } }

\* C11, trip/resolve: while less than the TTL has elapsed since the process
\* started, a lookup whose name differs only in case or surrounding blanks
\* from a name resolved on an earlier day is served from the cache, without
\* an upstream call.
C11_ResolveKeyNormalized ==
  (now - StartTime < COORDINATE_CACHE_DURATION /\ LookupDay >= 2) =>
    \A i \in 1..Len(lookups) :
      \A d \in 1..(LookupDay - 1) :
        \A p \in 1..Len(enrichedItinerary[d].places) :
          LET earlier == enrichedItinerary[d].places[p]
          IN  ( /\ lookups[i].name # Undefined
                /\ earlier.name # Undefined
                /\ earlier.place_id # ""
                /\ Normalize(earlier.name) = Normalize(lookups[i].name) )
              => /\ lookups[i].key
                      = CoordinateCacheKey(earlier.name, destinationLat, destinationLon)
                 /\ lookups[i].read.hit
                 /\ lookups[i].calls = 0

\* C11, trip/init: destination texts that differ only in case or surrounding
\* blanks have the same cache key.
C11_InitKeyNormalized ==
  \A text \in InitDestinations :
    (initBody.destination # Undefined
       /\ Normalize(text) = Normalize(initBody.destination))
    => DestinationCacheKey(text) = DestinationCacheKey(initBody.destination)

\* C11: two lookups whose query texts differ only in letter case or in
\* leading or trailing blanks have the same cache key, so the second one,
\* made within the TTL, is served from the cache without an upstream call.
C11_CacheKeysNormalized == C11_ResolveKeyNormalized /\ C11_InitKeyNormalized

\* two lookups of the day in progress that have the same key and both missed
OverlappingMisses(i, j) ==
  /\ i # j
  /\ lookups[i].pc # "threw"
  /\ lookups[j].pc # "threw"
  /\ lookups[i].key = lookups[j].key
  /\ ~lookups[i].read.hit
  /\ ~lookups[j].read.hit

\* each of two overlapping misses goes upstream itself, and once one of them
\* has obtained coordinates the key has an entry
OverlappingMissesGoUpstream ==
  \A i, j \in 1..Len(lookups) :
    OverlappingMisses(i, j) =>
      /\ lookups[i].calls >= 1
      /\ lookups[j].calls >= 1
      /\ (lookups[i].pc = "done" /\ lookups[i].result.found) =>
           /\ lookups[i].key \in DOMAIN coordinateCache
           /\ \E k \in 1..Len(lookups) :
                /\ lookups[k].key = lookups[i].key
                /\ lookups[k].pc = "done"
                /\ coordinateCache[lookups[i].key].data = lookups[k].result

\* a lookup that completes with coordinates stores them under its key,
\* replacing whatever the key held, and touches no other key or lookup
CompletionStoresLast ==
  \A i \in 1..Len(lookups) :
    ( /\ resolvePc \in {"awaiting", "aborted"}
      /\ resolvePc' = resolvePc
      /\ lookups[i].pc \in {"nearby", "autocomplete"}
      /\ lookups'[i].pc = "done" )
    => /\ \A j \in 1..Len(lookups) : j # i => lookups'[j] = lookups[j]
       /\ IF lookups'[i].result.found
            THEN /\ DOMAIN coordinateCache' = DOMAIN coordinateCache \cup {lookups[i].key}
                 /\ coordinateCache'[lookups[i].key] = CacheEntry(lookups'[i].result, now)
                 /\ \A k \in DOMAIN coordinateCache :
                      k # lookups[i].key => coordinateCache'[k] = coordinateCache[k]
            ELSE coordinateCache' = coordinateCache

\* C12: two overlapping lookups of one key that both miss each go upstream
\* and each store what they obtain; every store replaces the entry of the
\* key, so that the cache ends with one entry for it, the one stored last,
\* and no lookup fails or returns coordinates it did not fetch itself.
C12_OverlappingMissesLastWriteWins ==
  []OverlappingMissesGoUpstream /\ [][CompletionStoresLast]_vars

\* C12 witness: two lookups of one key both missed, both obtained
\* coordinates, different ones, and the cache holds those of one of them.
C12_Witness ==
  \E i, j \in 1..Len(lookups) :
    /\ OverlappingMisses(i, j)
    /\ lookups[i].pc = "done" /\ lookups[i].result.found
    /\ lookups[j].pc = "done" /\ lookups[j].result.found
    /\ lookups[i].result # lookups[j].result
    /\ coordinateCache[lookups[i].key].data = lookups[j].result

\* the validation rules of trip/create, as the request body violates them
ViolatesCreateRules(body) ==
  \/ ~Truthy(body.destination.name)
  \/ ~Truthy(body.destination.lat)
  \/ ~Truthy(body.destination.lon)
  \/ ~body.selectedIsArray
  \/ Len(body.selectedPlaces) = 0
  \/ Len(body.selectedPlaces) > 20
  \/ \E i \in 1..Len(body.selectedPlaces) :
       \/ ~Truthy(body.selectedPlaces[i].lat)
       \/ ~Truthy(body.selectedPlaces[i].lon)
  \/ ~(body.days.kind = "number" /\ body.days.tenths >= 10 /\ body.days.tenths <= 300)
  \/ body.budget \notin {"low", "moderate", "luxury"}

\* C13: a trip/create request whose body violates a validation rule is
\* answered 400 as soon as it is received, never 500, and no generator call
\* is made for it.
C13_InvalidCreateRequestGets400 ==
  \A r \in CreateRequests :
    (createPc[r] # "idle" /\ createBody[r].json /\ ViolatesCreateRules(createBody[r]))
    => /\ createPc[r] = "done"
       /\ createResponse[r].status = 400

\* the texts of the trip/init rules that a body violates, in rule order, days
\* being required to be a number from 1 to 30
ViolatedInitRules(body) ==
  (IF ~Truthy(body.destination) \/ Len(Trim(body.destination)) = 0
     THEN <<"Destination is required and must be a non-empty string">> ELSE <<>>)
  \o (IF ~body.placesIsArray \/ Len(body.places) = 0
        THEN <<"Places must be a non-empty array">>
      ELSE IF \E i \in 1..Len(body.places) :
                body.places[i] = Undefined \/ Len(Trim(body.places[i])) = 0
        THEN <<"All places must be non-empty strings">>
      ELSE <<>>)
  \o (IF ~(body.days.kind = "number" /\ body.days.tenths >= 10 /\ body.days.tenths <= 300)
        THEN <<"Days must be a positive number between 1 and 30">> ELSE <<>>)
  \o (IF body.budget \notin {"low", "moderate", "luxury"}
        THEN <<"Budget must be one of: low, moderate, luxury">> ELSE <<>>)

\* the request was answered 400 with the given rule texts as details, no
\* cache read and no upstream call having been made for it
RejectedWith(rules) ==
  /\ initPc = "done"
  /\ initResponse.status = 400
  /\ Len(initResponse.details) = Len(rules)
  /\ \A i \in 1..Len(rules) : initResponse.details[i].text = rules[i]
  /\ initReads = NoInitReads
  /\ initCalls = NoInitCalls

\* C14: a trip/init request that violates a validation rule gets a 400 whose
\* details list every violated rule, and neither the validation cache nor an
\* upstream lookup is touched for it.
C14_InvalidInitRequestGets400 ==
  (initPc # "idle" /\ initBody.json /\ ViolatedInitRules(initBody) # <<>>)
  => RejectedWith(ViolatedInitRules(initBody))

\* C14 for the rules as the handler tests them (days > 0 instead of days >= 1):
\* the same property, which the handler then satisfies.
C14_RejectedAsTested ==
  (initPc # "idle" /\ initBody.json /\ InitValidationErrors(initBody) # <<>>)
  => RejectedWith(InitValidationErrors(initBody))

\* the scenario: three references, two of them known to the pool under their
\* Italian names only
ScenarioPlaces == <<sColosseum, sTreviFountain, sNonexistent>>

ScenarioPool == <<cColosseo, cFontanaDiTrevi>>

\* trip/init matched the references of the scenario against its pool
InitScenario ==
  /\ InitMatched
  /\ initBody.places = ScenarioPlaces
  /\ nearbyPlaces = ScenarioPool

\* trip/resolve answered 200 for the references of the scenario, the nearby
\* search of every lookup having returned the pool of the scenario around
\* the destination's coordinates
ResolveScenario ==
  /\ resolveResponse.status = 200
  /\ Len(resolveBody.itinerary) = 1
  /\ Len(lookups) = Len(ScenarioPlaces)
  /\ \A i \in 1..Len(lookups) :
       /\ lookups[i].name = ScenarioPlaces[i]
       /\ lookups[i].answer = "ok"
       /\ lookups[i].pool = ScenarioPool
  /\ destinationLat = RomeLat
  /\ destinationLon = RomeLon

\* the output itinerary of the scenario has the three places, in order
ScenarioKeepsThreePlaces ==
  /\ Len(resolveResponse.itinerary) = 1
  /\ Len(resolveResponse.itinerary[1].places) = Len(ScenarioPlaces)
  /\ \A i \in 1..Len(ScenarioPlaces) :
       resolveResponse.itinerary[1].places[i].name = ScenarioPlaces[i]

FirstEqual(name, pool) ==
  IF \E k \in 1..Len(pool) : Normalize(pool[k].name) = Normalize(name)
    THEN CHOOSE k \in 1..Len(pool) :
           /\ Normalize(pool[k].name) = Normalize(name)
           /\ \A j \in 1..(k - 1) : Normalize(pool[j].name) # Normalize(name)
    ELSE 0

\* C16: a lookup that missed the cache and whose nearby search succeeded with
\* a candidate of the same normalized name returns the coordinates of the
\* first such candidate in pool order, even after a substring match.
C16_ExactMatchBeforeSubstring ==
  \A i \in 1..Len(lookups) :
    ( /\ lookups[i].answer = "ok"
      /\ lookups[i].name # Undefined
      /\ FirstEqual(lookups[i].name, lookups[i].pool) # 0 )
    => LET exact == lookups[i].pool[FirstEqual(lookups[i].name, lookups[i].pool)]
       IN  /\ lookups[i].pc = "done"
           /\ lookups[i].calls = 1
           /\ lookups[i].result = Coordinates(exact.lat, exact.lon, exact.id)

\* C16 witness: 'Colosseum' looked up in [Colosseum Square, Colosseum] got
\* the coordinates of the second candidate.
C16_Witness ==
  \E i \in 1..Len(lookups) :
    /\ lookups[i].answer = "ok"
    /\ lookups[i].pool = <<cColosseumSquare, cColosseum>>
    /\ lookups[i].name = sColosseum
    /\ lookups[i].result = Coordinates(cColosseum.lat, cColosseum.lon, cColosseum.id)

\* the normalized reference contains a key of the landmark table and the
\* normalized candidate name contains one of the aliases registered for it
HasRegisteredAlias(reference, candidateName) ==
  \E e \in 1..Len(landmarkMappings) :
    /\ Includes(Normalize(reference), landmarkMappings[e].english)
    /\ \E v \in 1..Len(landmarkMappings[e].variants) :
         Includes(Normalize(candidateName), landmarkMappings[e].variants[v])

\* neither string equals or contains the other
NoOverlap(reference, candidateName) ==
  /\ Normalize(reference) # Normalize(candidateName)
  /\ ~Includes(Normalize(reference), Normalize(candidateName))
  /\ ~Includes(Normalize(candidateName), Normalize(reference))

\* C17: in trip-init matching, a candidate whose name contains an alias
\* registered for a key contained in the reference is matched, also when the
\* two strings are neither equal nor contained in one another: the matcher
\* returns it unless an earlier candidate of the pool is accepted.
C17_AliasMatches ==
  matchPc = "done" =>
    \A k \in 1..Len(candidatePool) :
      HasRegisteredAlias(requestedPlace, candidatePool[k].name) =>
        /\ matchedIndex \in 1..k
        /\ (\A j \in 1..(k - 1) :
              /\ ~HasRegisteredAlias(requestedPlace, candidatePool[j].name)
              /\ NoOverlap(requestedPlace, candidatePool[j].name)
              /\ ~WordMatch(Normalize(requestedPlace), Normalize(candidatePool[j].name)))
           => matchedIndex = k

\* C17 witness: 'visit the Colosseum' matched 'Colosseo', which it neither
\* equals nor contains nor is contained in.
C17_Witness ==
  /\ matchPc = "done"
  /\ requestedPlace = sVisitColosseum
  /\ matchedIndex # 0
  /\ candidatePool[matchedIndex] = cColosseo
  /\ NoOverlap(requestedPlace, sColosseo)

\* the number of overlapping reference tokens the token strategy asks for
RequiredOverlap(n) ==
  IF n \in 1..4 THEN <<1, 1, 2, 2>>[n]
  ELSE CHOOSE m \in 0..n : 2 * m >= n /\ 2 * (m - 1) < n

\* the significant tokens of a reference and how many of them overlap a
\* significant token of a candidate name
ReferenceTokens(reference) == WordsOf(Normalize(reference))

OverlapCount(reference, candidateName) ==
  MatchingWordCount(ReferenceTokens(reference), WordsOf(Normalize(candidateName)))

\* no strategy before the token strategy accepts the candidate
OnlyTokensCanMatch(reference, candidateName) ==
  /\ NoOverlap(reference, candidateName)
  /\ ~HasRegisteredAlias(reference, candidateName)

\* C18: for a reference of n >= 1 significant tokens, a candidate that only
\* the token strategy can accept is matched exactly when at least
\* ceil(n * 0.5) reference tokens overlap a candidate token (1, 1, 2, 2 for
\* n = 1, 2, 3, 4): with no earlier candidate accepted, it is the one
\* returned if and only if the count reaches that number.
C18_TokenThreshold ==
  (matchPc = "done" /\ Len(ReferenceTokens(requestedPlace)) >= 1) =>
    \A k \in 1..Len(candidatePool) :
      ( /\ OnlyTokensCanMatch(requestedPlace, candidatePool[k].name)
        /\ \A j \in 1..(k - 1) : StrategyOf(requestedPlace, candidatePool[j].name) = 0 )
      => ( matchedIndex = k
             <=> OverlapCount(requestedPlace, candidatePool[k].name)
                   >= RequiredOverlap(Len(ReferenceTokens(requestedPlace))) )

\* a reference of n tokens met a candidate that only tokens can match, with
\* the given overlap, and the candidate was (or was not) returned
TokenCase(n, count, matched) ==
  /\ matchPc = "done"
  /\ Len(candidatePool) = 1
  /\ Len(ReferenceTokens(requestedPlace)) = n
  /\ OnlyTokensCanMatch(requestedPlace, candidatePool[1].name)
  /\ OverlapCount(requestedPlace, candidatePool[1].name) = count
  /\ matchedIndex = (IF matched THEN 1 ELSE 0)

\* C18 witness: a reference of four tokens matched with two overlapping
\* tokens, by the token strategy alone.
C18_Witness == TokenCase(4, 2, TRUE)

\* C19: in trip-init matching, when every candidate that matches the
\* reference matches it by the same strategy, the candidate returned is the
\* earliest matching one in pool order.
C19_SameStrategyEarliestWins ==
  (matchPc = "done" /\ Cardinality(PoolStrategies) = 1) =>
    /\ matchedIndex \in 1..Len(candidatePool)
    /\ StrategyOf(requestedPlace, candidatePool[matchedIndex].name) # 0
    /\ \A j \in 1..(matchedIndex - 1) :
         StrategyOf(requestedPlace, candidatePool[j].name) = 0

\* C19 witness: two different candidates both matched through the landmark
\* table, and the first of them was returned.
C19_Witness ==
  /\ matchPc = "done"
  /\ Len(candidatePool) = 2
  /\ candidatePool[1] # candidatePool[2]
  /\ StrategyOf(requestedPlace, candidatePool[1].name) = 3
  /\ StrategyOf(requestedPlace, candidatePool[2].name) = 3
  /\ matchedIndex = 1

\* the answers of the generator that are failures: the fetch rejected (a
\* timeout among them), a non-2xx status, an empty answer, text that is no
\* JSON, JSON without destination or itinerary
FailedAnswers == {"throw", "http", "empty", "badjson", "incomplete"}

\* C20: a trip-create request sends at most one call to the generator; when
\* that call fails (timeout, non-2xx, empty answer, invalid JSON, JSON without
\* destination or itinerary) the request has ended with a 500 response.
GeneratorCalledOnce ==
  /\ \A r \in CreateRequests :
       /\ createGroq[r].calls <= 1
       /\ createGroq[r].answer \in FailedAnswers =>
            /\ createPc[r] = "done"
            /\ createResponse[r].status = 500
            /\ createResponse[r].itinerary = <<>>
  /\ Len(groqCalls) = createGroq[1].calls + createGroq[2].calls

\* a request that has its answer sends nothing more and keeps its response
NoRetry ==
  \A r \in CreateRequests :
    createGroq[r].answer # "none" =>
      /\ createGroq'[r] = createGroq[r]
      /\ createResponse'[r] = createResponse[r]
      /\ createPc'[r] = "done"

C20_AtMostOneGeneratorCall == []GeneratorCalledOnce /\ [][NoRetry]_vars

\* C20 witness: both requests called the generator once; one call timed out
\* and one returned text that is no JSON, and both ended with a 500.
C20_Witness ==
  /\ createGroq[1].calls = 1 /\ createGroq[2].calls = 1
  /\ createGroq[1].answer = "throw" /\ createGroq[2].answer = "badjson"
  /\ createResponse[1].details = << <<"The operation was aborted due to timeout">> >>
  /\ createResponse[1].status = 500 /\ createResponse[2].status = 500
  /\ Len(groqCalls) = 2

\* a valid request that finds the last generator call less than
\* MIN_GROQ_INTERVAL old is put to sleep for the remaining part of the interval
ThrottleSetsTimer ==
  \A r \in CreateRequests :
    (createPc[r] = "idle" /\ createPc'[r] # "idle") =>
      /\ (createBody'[r] \in ValidCreateBodies /\ now - lastGroqRequest < MIN_GROQ_INTERVAL)
           => createPc'[r] = "throttled"
      /\ createPc'[r] = "throttled" =>
           /\ now - lastGroqRequest < MIN_GROQ_INTERVAL
           /\ createWake'[r] - now = MIN_GROQ_INTERVAL - (now - lastGroqRequest)
           /\ createWake'[r] - now \in 1..MIN_GROQ_INTERVAL
           /\ createResponse'[r] = NoResponse

\* a sleeping request leaves the throttle only to send its generator call, and
\* not before its timer has expired
ThrottleEndsInCall ==
  \A r \in CreateRequests :
    (createPc[r] = "throttled" /\ createPc'[r] # "throttled") =>
      /\ createPc'[r] = "calling"
      /\ now >= createWake[r]
      /\ groqCalls' = Append(groqCalls, now)
      /\ createResponse'[r] = NoResponse

ThrottledHasNoResponse ==
  \A r \in CreateRequests :
    createPc[r] = "throttled" => createResponse[r] = NoResponse

SameGeoFailure(o1, o2) ==
  /\ o1.kind \in {"throw", "http"}
  /\ o1.kind = o2.kind
  /\ o1.error.name = o2.error.name
  /\ o1.predictions = o2.predictions

\* two answers of the generator that are the same failure with another text
SameGroqFailure(o1, o2) ==
  /\ o1.kind \in {"throw", "http"}
  /\ o1.kind = o2.kind
  /\ o1.status = o2.status

InitErrorTextHidden ==
  (initPc = "autocomplete" /\ initResponse'.status = 500) =>
    \A o1, o2 \in InitDestinationOutcomes :
      ( /\ SameGeoFailure(o1, o2)
        /\ InitAfterAutocomplete(InitCurrent, o1, now).response = initResponse' )
      => InitAfterAutocomplete(InitCurrent, o2, now).response = initResponse'

CreateErrorTextHidden ==
  \A r \in CreateRequests :
    (createPc[r] = "calling" /\ createResponse'[r].status = 500) =>
      \A o1, o2 \in GroqOutcomes :
        ( /\ SameGroqFailure(o1, o2)
          /\ GroqResponse(o1, createBody[r]) = createResponse'[r] )
        => GroqResponse(o2, createBody[r]) = createResponse'[r]

ResolveErrorTextHidden ==
  (resolvePc = "destination" /\ resolveResponse'.status = 500) =>
    \A o1, o2 \in DestinationOutcomes :
      ( /\ SameGeoFailure(o1, o2)
        /\ ResolveErrorResponse(o1.error) = resolveResponse' )
      => ResolveErrorResponse(o2.error) = resolveResponse'

\* C22: the body of a 500 response caused by an upstream failure is the one
\* the handler would have returned had the upstream failed in the same way
\* with any other error text (trip-init, trip-create, trip-resolve).
C22_UpstreamErrorTextHidden ==
  [][InitErrorTextHidden /\ CreateErrorTextHidden /\ ResolveErrorTextHidden]_vars

\* the days assembled so far are the first days of the input, each with the
\* places of the input day in their order, under their names and time slots
SameDaysAndPlaces(output, input) ==
  /\ Len(output) <= Len(input)
  /\ \A d \in 1..Len(output) :
       /\ output[d].day = input[d].day
       /\ Len(output[d].places) = Len(input[d].places)
       /\ \A p \in 1..Len(output[d].places) :
            /\ output[d].places[p].name = input[d].places[p].name
            /\ output[d].places[p].time = input[d].places[p].time

OutputKeepsInputOrder ==
  /\ SameDaysAndPlaces(enrichedItinerary, resolveBody.itinerary)
  /\ resolveResponse.status = 200 =>
       /\ SameDaysAndPlaces(resolveResponse.itinerary, resolveBody.itinerary)
       /\ Len(resolveResponse.itinerary) = Len(resolveBody.itinerary)

\* a day is added only once every lookup of the day has returned
DayAssembledAfterJoin ==
  enrichedItinerary' # enrichedItinerary =>
    /\ \A i \in 1..Len(lookups) : lookups[i].pc = "done"
    /\ Len(enrichedItinerary') = Len(enrichedItinerary) + 1
    /\ Len(lookups) = Len(resolveBody.itinerary[dayIndex].places)

\* C23: whatever order the concurrent lookups of a day complete in, the
\* output itinerary of trip-resolve has the days of the input in their order
\* and, in each day, as many places in the same order with the same name and
\* time slot; a day is assembled only after all its lookups have returned.
C23_OutputOrderIndependentOfCompletion ==
  []OutputKeepsInputOrder /\ [][DayAssembledAfterJoin]_vars

\* C23 witness: the three lookups of a day completed in the reverse of their
\* input order and the 200 response lists the places in input order.
C23_Witness ==
  /\ resolveResponse.status = 200
  /\ unresolvedPlaces = <<sNonexistent, sTreviFountain, sColosseum>>
  /\ Len(resolveResponse.itinerary) = 1
  /\ [p \in 1..3 |-> resolveResponse.itinerary[1].places[p].name]
       = <<sColosseum, sTreviFountain, sNonexistent>>

\* the references of the request in progress that match a candidate of the
\* pool when matched alone, and their rank among them
MatchedAlone ==
  { i \in 1..Len(initBody.places) : FindMatch(initBody.places[i], nearbyPlaces) # 0 }

UnmatchedAlone == (1..Len(initBody.places)) \ MatchedAlone

RankIn(set, i) == Cardinality({ j \in set : j <= i })

\* every reference of the batch got the outcome it gets when matched alone
\* against the pool
OutcomePerReference ==
  /\ Len(validatedPlaces) = Cardinality(MatchedAlone)
  /\ Len(invalidPlaces) = Cardinality(UnmatchedAlone)
  /\ \A i \in MatchedAlone :
       LET alone == nearbyPlaces[FindMatch(initBody.places[i], nearbyPlaces)]
       IN  validatedPlaces[RankIn(MatchedAlone, i)]
             = Candidate(alone.name, alone.id, alone.lat, alone.lon)
  /\ \A i \in UnmatchedAlone :
       invalidPlaces[RankIn(UnmatchedAlone, i)] = initBody.places[i]

\* the pool matched against is one the nearby search returned and is the one
\* the cache holds for the destination's coordinates
PoolIntact ==
  /\ \E outcome \in InitNearbyOutcomes : outcome.kind = "ok" /\ nearbyPlaces = outcome.places
  /\ LET key == PlacesCacheKey(destinationResult.lat, destinationResult.lon)
     IN  /\ key \in DOMAIN validationCache
         /\ validationCache[key].data = nearbyPlaces

\* C24: trip-init matching is a function of the reference and the pool: each
\* reference of a batch is matched to the candidate it is matched to alone
\* (or left unmatched), whatever the other references, their order and the
\* requests served before, and matching leaves the pool and the cache as
\* they were.
C24_MatchingIsPure ==
  InitMatched => (OutcomePerReference /\ PoolIntact)

\* C24 witness: two references of one batch were matched to the same
\* candidate, from a pool read from the cache an earlier request had filled.
C24_Witness ==
  /\ InitMatched
  /\ initBody.places = <<sVisitColosseum, sColosseum>>
  /\ initReads.places.hit
  /\ Len(validatedPlaces) = 2
  /\ validatedPlaces[1] = validatedPlaces[2]
  /\ validatedPlaces[1].name = sColosseo

\* C25: in every 200 response of trip-resolve, under every interleaving of
\* the lookups, resolved_places + length(unresolved_places) = total_places,
\* and total_places is the number of place entries of the output itinerary.
C25_ResolutionCountsAddUp ==
  resolveResponse.status = 200 =>
    /\ resolvedCount + Len(unresolvedPlaces) = totalPlaces
    /\ totalPlaces = CountPlaces(resolveResponse.itinerary)
    /\ totalPlaces = CountPlaces(resolveBody.itinerary)

\* C25 witness: a 200 response over two days in which one place was resolved
\* upstream, one was served from the cache and one was left unresolved.
C25_Witness ==
  /\ resolveResponse.status = 200
  /\ Len(resolveResponse.itinerary) = 2
  /\ totalPlaces = 3
  /\ resolvedCount = 2
  /\ unresolvedPlaces = <<sColosseum>>
  /\ \E i \in 1..Len(lookups) : lookups[i].read.hit

\* the step that starts the lookups of a day
DayStarts == resolvePc = "loop" /\ resolvePc' \in {"awaiting", "aborted"}

\* the lookups of a day start once every lookup of the day before has
\* returned and that day has been assembled
DaysInSequence ==
  DayStarts =>
    /\ \A i \in 1..Len(lookups) : lookups[i].pc = "done"
    /\ Len(enrichedItinerary) = dayIndex - 1
    /\ dayIndex > 1 => Len(lookups) = Len(resolveBody.itinerary[dayIndex - 1].places)

\* a name resolved on the day before has its entry in the cache when the
\* next day starts, and a lookup of that name is answered from it without an
\* upstream call while the entry is younger than the TTL
EarlierDayServedFromCache ==
  DayStarts =>
    \A i \in 1..Len(lookups) :
      lookups[i].result.found =>
        /\ lookups[i].key \in DOMAIN coordinateCache
        /\ \A j \in 1..Len(lookups') :
             ( /\ lookups'[j].name # Undefined
               /\ ToLowerCase(lookups'[j].name) = ToLowerCase(lookups[i].name)
               /\ now - coordinateCache[lookups[i].key].timestamp
                    < COORDINATE_CACHE_DURATION )
             => /\ lookups'[j].read.hit
                /\ lookups'[j].calls = 0
                /\ lookups'[j].pc = "done"
                /\ lookups'[j].result = coordinateCache[lookups[i].key].data

\* the lookups of one day all read the cache before any of them has stored:
\* a name without an entry when the day starts goes upstream for each of its
\* occurrences in the day
SameDayLookupsAllStart ==
  DayStarts =>
    \A j \in 1..Len(lookups') :
      ( /\ lookups'[j].name # Undefined
        /\ \A k \in DOMAIN coordinateCache :
             SubSeq(k, 1, Len(lookups'[j].name)) # ToLowerCase(lookups'[j].name) )
      => /\ ~lookups'[j].read.hit
         /\ lookups'[j].pc = "nearby"
         /\ lookups'[j].calls = 1

\* C26: in trip-resolve the lookups of day k+1 start only after every lookup
\* of day k has completed, so a name resolved on the earlier day is served
\* from the cache on the next without an upstream call (within the TTL),
\* while the lookups of one day all start before any of them has stored.
C26_DaysSequentialPlacesConcurrent ==
  [][DaysInSequence /\ EarlierDayServedFromCache /\ SameDayLookupsAllStart]_vars

\* C26 witness: the two lookups of day 1 for one name both went upstream and
\* were resolved, and the lookup of that name on day 2 was served from the
\* cache.
C26_Witness ==
  /\ dayIndex = 2
  /\ Len(enrichedItinerary) = 1
  /\ Len(enrichedItinerary[1].places) = 2
  /\ enrichedItinerary[1].places[1].name = enrichedItinerary[1].places[2].name
  /\ enrichedItinerary[1].places[1].place_id # ""
  /\ enrichedItinerary[1].places[2].place_id # ""
  /\ Len(lookups) = 1
  /\ lookups[1].name = enrichedItinerary[1].places[1].name
  /\ lookups[1].read.hit
  /\ lookups[1].calls = 0

\* the candidate's lower-cased name contains the normalized reference or is
\* contained in it
SubstringOverlap(name, candidateName) ==
  \/ Includes(ToLowerCase(candidateName), Normalize(name))
  \/ Includes(Normalize(name), ToLowerCase(candidateName))

\* the first place of a pool that overlaps the reference (0: none)
FirstOverlap(name, pool) ==
  IF \E k \in 1..Len(pool) : SubstringOverlap(name, pool[k].name)
    THEN CHOOSE k \in 1..Len(pool) :
           /\ SubstringOverlap(name, pool[k].name)
           /\ \A j \in 1..(k - 1) : ~SubstringOverlap(name, pool[j].name)
    ELSE 0

\* what the fallback can return: the first prediction of an OK answer, or
\* nothing
FallbackResults ==
  { NoCoordinates } \cup
  { Coordinates(o.predictions[1].lat, o.predictions[1].lon, o.predictions[1].place_id) :
      o \in { a \in AutocompleteOutcomes : a.kind = "ok" /\ Len(a.predictions) > 0 } }

\* the nearby search of lookup i settles: the fallback is sent only after a
\* non-OK answer or an answer without exact or substring match, and a
\* substring match without exact match is returned
NearbySettles(i) ==
  (lookups[i].pc = "nearby" /\ lookups'[i].pc # "nearby") =>
    LET name == lookups[i].name
        pool == lookups'[i].pool
        answer == lookups'[i].answer
    IN  /\ lookups[i].calls = 1
        /\ lookups'[i].pc \in {"autocomplete", "done"}
        /\ lookups'[i].pc = "autocomplete" =>
             /\ lookups'[i].calls = 2
             /\ \/ answer = "http"
                \/ /\ answer = "ok"
                   /\ FirstEqual(name, pool) = 0
                   /\ FirstOverlap(name, pool) = 0
        /\ (answer = "ok" /\ FirstEqual(name, pool) = 0 /\ FirstOverlap(name, pool) # 0)
             => /\ lookups'[i].pc = "done"
                /\ lookups'[i].calls = 1
                /\ lookups'[i].result =
                     Coordinates(pool[FirstOverlap(name, pool)].lat,
                                 pool[FirstOverlap(name, pool)].lon,
                                 pool[FirstOverlap(name, pool)].id)

\* the fallback of lookup i settles
FallbackSettles(i) ==
  (lookups[i].pc = "autocomplete" /\ lookups'[i].pc # "autocomplete") =>
    /\ lookups'[i].pc = "done"
    /\ lookups'[i].calls = 2
    /\ lookups'[i].result \in FallbackResults

\* a lookup sends at most the nearby search and the fallback, the fallback
\* only from the point where the nearby search left it without a match
FallbackAfterNearby ==
  \A i \in 1..Len(lookups) :
    /\ lookups[i].calls \in 0..2
    /\ lookups[i].read.hit => lookups[i].calls = 0
    /\ lookups[i].pc = "autocomplete" => lookups[i].calls = 2
    /\ lookups[i].calls = 2 =>
         /\ lookups[i].pc \in {"autocomplete", "done"}
         /\ lookups[i].answer \in {"http", "ok"}

\* C27: on a cache miss of a trip-resolve lookup, the autocomplete fallback
\* is called only when the nearby search was non-OK or gave neither an exact
\* nor a substring match; with no exact match but a substring match, the
\* first such candidate in pool order is returned without the fallback; the
\* fallback returns its first prediction, or nothing.
C27_FallbackOnlyWithoutMatch ==
  /\ []FallbackAfterNearby
  /\ [][\A i \in 1..Len(lookups) : NearbySettles(i) /\ FallbackSettles(i)]_vars

\* C27 witness: 'Colosseum' looked up in [Colosseum Square] got the
\* coordinates of that candidate in one call, while another lookup of the
\* day fell back on autocomplete and got its first prediction.
C27_Witness ==
  \E i, j \in 1..Len(lookups) :
    /\ lookups[i].name = sColosseum
    /\ lookups[i].pool = <<cColosseumSquare>>
    /\ lookups[i].calls = 1
    /\ lookups[i].result = Coordinates(cColosseumSquare.lat, cColosseumSquare.lon,
                                       cColosseumSquare.id)
    /\ lookups[j].calls = 2
    /\ lookups[j].pc = "done"
    /\ lookups[j].result = Coordinates(predAtlantis.lat, predAtlantis.lon,
                                       predAtlantis.place_id)

\* C28: every 200 response of trip-init carries a days value that is an
\* integer between 1 and 30, for every days input that passes validation.
C28_ResponseDaysInRange ==
  initResponse.status = 200 => initResponse.days \in 1..30

\* lookup i of the day in progress returns in this step
LookupReturns(i) ==
  /\ Len(lookups') = Len(lookups)
  /\ lookups[i].pc \in {"nearby", "autocomplete"}
  /\ lookups'[i].pc = "done"

\* trip-resolve: a lookup that returns without coordinates leaves the cache
\* as it is, and an entry is written only by a lookup that returns with
\* coordinates, under its key
FailedLookupStoresNothing ==
  /\ \A i \in 1..Len(lookups) :
       (LookupReturns(i) /\ ~lookups'[i].result.found) =>
         coordinateCache' = coordinateCache
  /\ \A k \in DOMAIN coordinateCache' :
       (k \notin DOMAIN coordinateCache \/ coordinateCache'[k] # coordinateCache[k]) =>
         \E i \in 1..Len(lookups) :
           /\ LookupReturns(i)
           /\ lookups[i].key = k
           /\ lookups'[i].result.found
           /\ coordinateCache'[k] = CacheEntry(lookups'[i].result, now)

\* trip-init: a destination lookup that is rejected, non-OK or empty, and a
\* nearby lookup that is rejected or non-OK, leave the cache as it is
FailedValidationStoresNothing ==
  /\ (initPc = "autocomplete" /\ initPc' = "done" /\ destinationResult' = NoPrediction)
       => validationCache' = validationCache
  /\ (initPc = "nearby" /\ initPc' = "done" /\ initResponse'.status = 500)
       => validationCache' = validationCache

\* the lookups of the day before for the key of new lookup j
SameKeyBefore(j) == { i \in 1..Len(lookups) : lookups[i].key = lookups'[j].key }

\* trip-resolve: a key whose lookups of the day before all returned without
\* coordinates is looked up upstream again
ResolveLooksUpAgain ==
  DayStarts =>
    \A j \in 1..Len(lookups') :
      ( /\ lookups'[j].name # Undefined
        /\ SameKeyBefore(j) # {}
        /\ \A i \in SameKeyBefore(j) : ~lookups[i].result.found )
      => /\ ~lookups'[j].read.hit
         /\ lookups'[j].pc = "nearby"
         /\ lookups'[j].calls = 1

\* the request that follows one whose lookup failed asks for the same
\* destination
SameDestinationAgain ==
  /\ initPc = "done"
  /\ initPc' # "done"
  /\ InitValidationErrors(initBody) = <<>> /\ initBody.json
  /\ InitValidationErrors(initBody') = <<>> /\ initBody'.json
  /\ DestinationCacheKey(initBody'.destination) = DestinationCacheKey(initBody.destination)

\* trip-init: after a failed destination lookup the destination is looked up
\* upstream again; after a failed nearby lookup the places of the same
\* coordinates are
InitLooksUpAgain ==
  /\ ( /\ SameDestinationAgain
       /\ initCalls.autocomplete = 1
       /\ destinationResult = NoPrediction )
     => /\ initPc' = "autocomplete"
        /\ ~initReads'.destination.hit
        /\ initCalls'.autocomplete = 1
  /\ ( /\ SameDestinationAgain
       /\ initCalls.nearby = 1
       /\ initResponse.status = 500
       /\ initReads'.destination.hit
       /\ destinationResult'.lat = destinationResult.lat
       /\ destinationResult'.lon = destinationResult.lon )
     => /\ initPc' = "nearby"
        /\ ~initReads'.places.hit
        /\ initCalls'.nearby = 1

\* C29 as amended: a lookup that obtains no result writes no cache entry, in
\* trip-resolve and in trip-init, so the next lookup of the key goes upstream
\* again unless another lookup of the same key has stored its result.
C29_FailedLookupsNotCached ==
  [][/\ FailedLookupStoresNothing
     /\ FailedValidationStoresNothing
     /\ ResolveLooksUpAgain
     /\ InitLooksUpAgain]_vars

\* C29 as claimed: after a lookup that returned without coordinates, the next
\* lookup of the same key goes upstream again.
C29_NextLookupAlwaysUpstream ==
  [][DayStarts =>
       \A j \in 1..Len(lookups') :
         ( /\ lookups'[j].name # Undefined
           /\ \E i \in SameKeyBefore(j) : ~lookups[i].result.found )
         => ~lookups'[j].read.hit]_vars

\* C29 witness: both lookups of a name returned without coordinates on day 1,
\* nothing is cached for the name, and its lookup of day 2 went upstream.
C29_Witness ==
  /\ dayIndex = 2
  /\ unresolvedPlaces = <<sColosseum, sColosseum>>
  /\ Len(lookups) = 1
  /\ lookups[1].name = sColosseum
  /\ ~lookups[1].read.present
  /\ lookups[1].calls >= 1
  /\ coordinateCache = EmptyCache

=============================================================================
